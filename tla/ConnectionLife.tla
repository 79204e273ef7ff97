--------------------------- MODULE ConnectionLife ---------------------------
(***************************************************************************)
(* The life of one connection as its user and its server see it: what      *)
(* TcpConnection promises and TcpServer counts on.  It is established      *)
(* once, destroyed once, and its user hears of the end at most once: from  *)
(* the peer's close, or from a conneectDestroyed that finds it connected.  *)
(***************************************************************************)
EXTENDS Naturals

VARIABLES
  state,  \* state_
  told,   \* how often the user has been told of the end
  ended   \* how often conneectDestroyed has run

lifeVars == <<state, told, ended>>

Init == state = "kConnecting" /\ told = 0 /\ ended = 0

(* conneectEstableished.                                                    *)
Establish ==
  /\ state = "kConnecting" /\ ended = 0
  /\ state' = "kConnected"
  /\ UNCHANGED <<told, ended>>

(* shutdown: only an established connection is asked to end.                *)
AskToEnd ==
  /\ state = "kConnected" /\ ended = 0
  /\ state' = "kDisconnecting"
  /\ UNCHANGED <<told, ended>>

(* handleClose.  Only a connection that End left kDisconnecting can still   *)
(* be closed after it.                                                      *)
Close ==
  /\ state \in {"kConnected", "kDisconnecting"}
  /\ state' = "kDisconnected"
  /\ told' = told + 1
  /\ UNCHANGED ended

(* conneectDestroyed tells the user of the end of a connection that nobody  *)
(* has closed, and leaves one that was asked to end as it is.               *)
End ==
  /\ state # "kConnecting" /\ ended = 0
  /\ ended' = 1
  /\ IF state = "kConnected"
     THEN state' = "kDisconnected" /\ told' = told + 1
     ELSE UNCHANGED <<state, told>>

Next == Establish \/ AskToEnd \/ Close \/ End

Spec == Init /\ [][Next]_lifeVars
=============================================================================
