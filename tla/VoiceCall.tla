----------------------------- MODULE VoiceCall ------------------------------
(***************************************************************************)
(* src/src/domain/call/voice-call-state.ts: how the events of one provider *)
(* call (status webhooks and the key the staff member presses) fold into   *)
(* the state of the call, and what that state means for routing.           *)
(***************************************************************************)

Undecided == {"queued", "ringing", "awaiting_acceptance"}

\* TERMINAL_VOICE_STATES
Decided == {"answered", "staff_coming", "declined", "no_answer", "busy", "failed"}

VoiceStates == Undecided \cup Decided

\* The staff member's keys and VONAGE_CALL_STATUSES.
StaffChoices == {"accept", "coming", "declined", "delegate"}

CallStatuses == {"started", "ringing", "answered", "busy", "cancelled",
                 "unanswered", "disconnected", "timeout", "rejected", "failed", "completed"}

VoiceEvents == StaffChoices \cup CallStatuses

\* The state a decisive event leads to, from any undecided state.
DecisionOf == [e \in VoiceEvents \ {"started", "ringing", "answered"} |->
    CASE e = "accept"                             -> "answered"
      [] e = "coming"                             -> "staff_coming"
      [] e \in {"declined", "delegate", "rejected"} -> "declined"
      [] e = "busy"                               -> "busy"
      [] e = "failed"                             -> "failed"
      [] OTHER                                    -> "no_answer"]

Decisive == DOMAIN DecisionOf

\* Mutation of ApplyVoiceEvent: a decided call goes on changing.
ApplyVoiceEventUndecides(state, e) ==
    CASE e \in Decisive   -> DecisionOf[e]
      [] e \notin Decisive -> state

\* The fold of one event into the state of the call.
ApplyVoiceEvent(state, e) ==
    CASE state \in Decided -> state
      [] state \in Undecided /\ e \in Decisive -> DecisionOf[e]
      [] state \in Undecided /\ e = "answered" -> "awaiting_acceptance"
      [] state = "queued" /\ e = "ringing"     -> "ringing"
      [] OTHER -> state

\* isTerminalSuccess: a human has taken the visitor.  The result of a decided
\* call has the name of its state; an undecided call has no result.
Success == {"answered", "accepted", "staff_coming"}

RouteResults == Decided \cup {"accepted"}
=============================================================================
