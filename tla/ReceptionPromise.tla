-------------------------- MODULE ReceptionPromise --------------------------
(***************************************************************************)
(* What the reception store promises about one reception, as a machine     *)
(* whose every operation is a single step: a reception reaches one ending, *)
(* which never changes afterwards, the call it waits for moves only while   *)
(* it is calling, and its ending is filed in the history at most once (a   *)
(* connected reception only when it is completed).                          *)
(***************************************************************************)
EXTENDS Sequences

CONSTANTS Calls, NoCall

VARIABLES state,    \* the reception state
          ending,  \* how the call ended, "none" until it has
          call,     \* the provider call the reception waits for
          history   \* the endings filed in the reception log

vars == <<state, ending, call, history>>

Endings == {"connected", "timeout", "failed", "cancelled"}

Init == /\ state = "confirming"
        /\ ending = "none"
        /\ call = NoCall
        /\ history = <<>>

Confirm == /\ state = "confirming"
           /\ state' = "calling"
           /\ UNCHANGED <<ending, call, history>>

Await(c) == /\ state = "calling"
            /\ call' = c
            /\ UNCHANGED <<state, ending, history>>

\* Only a call that is under way can connect or time out.
Conclude(v) == /\ \/ state = "calling"
                  \/ state = "confirming" /\ v \in {"failed", "cancelled"}
               /\ state' = v
               /\ ending' = v
               /\ UNCHANGED <<call, history>>

UseFallback == /\ state \in {"timeout", "failed"}
               /\ state' = "fallback"
               /\ UNCHANGED <<ending, call, history>>

Complete == /\ state \in {"connected", "fallback"}
            /\ state' = "completed"
            /\ UNCHANGED <<ending, call, history>>

File == /\ ending # "none"
        /\ ending = "connected" => state = "completed"
        /\ history = <<>>
        /\ history' = <<ending>>
        /\ UNCHANGED <<state, ending, call>>

Next == \/ Confirm
        \/ \E c \in Calls : Await(c)
        \/ \E v \in Endings : Conclude(v)
        \/ UseFallback
        \/ Complete
        \/ File

Spec == Init /\ [][Next]_vars
=============================================================================
