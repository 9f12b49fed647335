-------------------------- MODULE VoiceCallHistory --------------------------
(***************************************************************************)
(* The fold of VoiceCall driven by events in any order, repeated or lost,   *)
(* next to the list of the events that were applied.                       *)
(***************************************************************************)
EXTENDS Naturals, Sequences, VoiceCall

CONSTANT MaxEvents      \* bound on the events applied to one call

ASSUME MaxEventsAssumption == MaxEvents \in Nat

VARIABLES voice,    \* the state of the call
          heard     \* the events applied so far, oldest first

voiceVars == <<voice, heard>>

\* initialVoiceCallState
VoiceInit == voice = "queued" /\ heard = <<>>

Apply(e) == /\ Len(heard) < MaxEvents
            /\ voice' = ApplyVoiceEvent(voice, e)
            /\ heard' = Append(heard, e)

VoiceNext == \E e \in VoiceEvents : Apply(e)

VoiceSpec == VoiceInit /\ [][VoiceNext]_voiceVars

TypeOK == /\ voice \in VoiceStates
          /\ heard \in Seq(VoiceEvents)

-----------------------------------------------------------------------------
Heard(e) == \E i \in DOMAIN heard : heard[i] = e

\* Event i decided the call: no earlier event was decisive.
FirstDecision(i) == /\ heard[i] \in Decisive
                    /\ \A j \in 1..(i - 1) : heard[j] \notin Decisive

\* The state of a call is what its first decisive event said, whatever came
\* later; while nothing has decided it, it only tells how far the call got,
\* in whatever order the notifications arrived.
FirstDecisionStands ==
    IF \E i \in DOMAIN heard : heard[i] \in Decisive
    THEN \E i \in DOMAIN heard : FirstDecision(i) /\ voice = DecisionOf[heard[i]]
    ELSE voice = IF Heard("answered") THEN "awaiting_acceptance"
                 ELSE IF Heard("ringing") THEN "ringing" ELSE "queued"
=============================================================================
