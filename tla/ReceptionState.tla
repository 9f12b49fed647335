--------------------------- MODULE ReceptionState ---------------------------
(***************************************************************************)
(* The reception state machine of src/src/domain/reception/state.ts, shared *)
(* by the kiosk screen and by the server's store.                          *)
(***************************************************************************)

States == {"idle", "selectingPurpose", "selectingTarget", "inputVisitorInfo",
           "confirming", "calling", "connected", "timeout", "failed",
           "cancelled", "fallback", "completed"}

Events == {"START", "SELECT_PURPOSE", "SELECT_TARGET", "SUBMIT_VISITOR_INFO",
           "CONFIRM", "CALL_CONNECTED", "CALL_TIMEOUT", "CALL_FAILED",
           "CANCEL", "COMPLETE", "USE_FALLBACK", "BACK", "RESET"}

\* The table TRANSITIONS; RESET is allowed from every state and is added by
\* transition() itself.
Edges == {<<"idle",             "START",               "selectingPurpose">>,
          <<"selectingPurpose", "SELECT_PURPOSE",      "selectingTarget">>,
          <<"selectingPurpose", "CANCEL",              "idle">>,
          <<"selectingTarget",  "SELECT_TARGET",       "inputVisitorInfo">>,
          <<"selectingTarget",  "BACK",                "selectingPurpose">>,
          <<"selectingTarget",  "CANCEL",              "idle">>,
          <<"inputVisitorInfo", "SUBMIT_VISITOR_INFO", "confirming">>,
          <<"inputVisitorInfo", "BACK",                "selectingTarget">>,
          <<"inputVisitorInfo", "CANCEL",              "idle">>,
          <<"confirming",       "CONFIRM",             "calling">>,
          <<"confirming",       "BACK",                "inputVisitorInfo">>,
          <<"confirming",       "CANCEL",              "cancelled">>,
          <<"confirming",       "CALL_FAILED",         "failed">>,
          <<"calling",          "CALL_CONNECTED",      "connected">>,
          <<"calling",          "CALL_TIMEOUT",        "timeout">>,
          <<"calling",          "CALL_FAILED",         "failed">>,
          <<"calling",          "CANCEL",              "cancelled">>,
          <<"connected",        "COMPLETE",            "completed">>,
          <<"timeout",          "USE_FALLBACK",        "fallback">>,
          <<"failed",           "USE_FALLBACK",        "fallback">>,
          <<"fallback",         "COMPLETE",            "completed">>}
         \cup ({"timeout", "failed", "cancelled", "fallback", "completed"}
               \X {"RESET"} \X {"idle"})

\* transition(state, event): the set holds the target, or is empty when the
\* event is not allowed in the state.
Targets(state, event) ==
    IF event = "RESET" THEN {"idle"}
    ELSE {t \in States : <<state, event, t>> \in Edges}
=============================================================================
