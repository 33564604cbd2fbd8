------------------------------ MODULE MCAgentLoop ------------------------------
(* Instances for TLC of a rollout of AgentLoop, the loops of PosthocMask at its *)
(* end, and the trainer step of AdvantageMask on its row.                       *)
EXTENDS PosthocMask, AdvantageMask

\* Unlimited, an assistant budget below the response budget, a budget of zero
\* (accepted by the code, since only None means "no limit"), and turn limits.
MCLimits ==
    {[assistant_len |-> None, assistant_turns |-> 0, user_turns |-> 0],
     [assistant_len |-> 4,    assistant_turns |-> 0, user_turns |-> 0],
     [assistant_len |-> 0,    assistant_turns |-> 0, user_turns |-> 0],
     [assistant_len |-> None, assistant_turns |-> 2, user_turns |-> 0],
     [assistant_len |-> None, assistant_turns |-> 0, user_turns |-> 1]}

================================================================================
