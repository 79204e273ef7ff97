--------------------------- MODULE MCEpollPoller ---------------------------
(* EpollPoller on small instances, with the masks of Channel.cpp:10-11.     *)
EXTENDS EpollPoller

CodeReadEvent == {"EPOLLIN", "EPOLLPRI"}
CodeWriteEvent == {"EPOLLOUT", "EPOLLPRI"}
=============================================================================
