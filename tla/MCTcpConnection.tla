-------------------------- MODULE MCTcpConnection --------------------------
(* TcpConnection on small instances, with the masks of the comments of      *)
(* Channel.h:39-51, one bit each, and with those of Channel.cpp:10-11.      *)
EXTENDS TcpConnection

ReadBit == {"EPOLLIN"}
WriteBit == {"EPOLLOUT"}
CodeReadEvent == {"EPOLLIN", "EPOLLPRI"}
CodeWriteEvent == {"EPOLLOUT", "EPOLLPRI"}
=============================================================================
