-------------------------- MODULE CommandContract --------------------------
(***************************************************************************)
(* What a client of a conversation may rely on, whatever requests,         *)
(* children, crashes and recoveries are behind it: commands are carried    *)
(* out one at a time, each continues the state one completed command left  *)
(* (or the conversation's first run) and no two continue the same one, a   *)
(* prompt runs once at most and only past the dispatch boundary, and a     *)
(* command that has crossed the boundary is completed or left open for a   *)
(* person, never rejected.  CommandDispatch implements it.                 *)
(***************************************************************************)
CONSTANTS
  Commands,    \* idempotency keys
  NoCommand,   \* the base of a command that continues the first run
  Attempts     \* what a prompt is run under: run ids

VARIABLES
  phase,   \* how far each command is
  base,    \* the command each one continues
  ran      \* the attempts that ran each command's prompt

contractVars == <<phase, base, ran>>

\* At most one command of a conversation is open.
Open == {"accepted", "dispatched", "sealed"}

\* Its effect on the candidate state is decided or may have happened.
CarriedOut == {"dispatched", "sealed", "completed"}

ContractInit ==
  /\ phase = [k \in Commands |-> "none"]
  /\ base = [k \in Commands |-> NoCommand]
  /\ ran = [k \in Commands |-> {}]

Moves(k, from, to) ==
  /\ phase[k] = from
  /\ phase' = [phase EXCEPT ![k] = to]

Accepts(k, b) ==
  /\ Moves(k, "none", "accepted")
  /\ \A j \in Commands : phase[j] \notin Open
  /\ b = NoCommand \/ phase[b] = "completed"
  /\ \A j \in Commands : phase[j] \in CarriedOut => base[j] # b
  /\ base' = [base EXCEPT ![k] = b]
  /\ UNCHANGED ran

Dispatches(k) == Moves(k, "accepted", "dispatched") /\ UNCHANGED <<base, ran>>

RunsPrompt(k, a) ==
  /\ phase[k] = "dispatched"
  /\ ran[k] = {}
  /\ ran' = [ran EXCEPT ![k] = {a}]
  /\ UNCHANGED <<phase, base>>

Seals(k) ==
  /\ ran[k] # {}
  /\ Moves(k, "dispatched", "sealed")
  /\ UNCHANGED <<base, ran>>

Completes(k) == Moves(k, "sealed", "completed") /\ UNCHANGED <<base, ran>>

Rejects(k) == Moves(k, "accepted", "rejected") /\ UNCHANGED <<base, ran>>

ContractNext ==
  \E k \in Commands :
    \/ \E b \in Commands \cup {NoCommand} : Accepts(k, b)
    \/ \E a \in Attempts : RunsPrompt(k, a)
    \/ Dispatches(k) \/ Seals(k) \/ Completes(k) \/ Rejects(k)

ContractSpec == ContractInit /\ [][ContractNext]_contractVars
============================================================================
