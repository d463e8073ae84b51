------------------------------ MODULE DeepResearch ------------------------------
(***************************************************************************)
(* Deep research (src/backend/core/orchestrator.py): a lead plans          *)
(* sub-questions, sub-agents answer them, a few at a time, and the lead    *)
(* fuses the answers and has the report checked.                           *)
(*                                                                         *)
(* A sub-agent that fails is done, with nothing found; a call of the       *)
(* lead's that fails sinks the run.  Left out: what is asked and found.    *)
(***************************************************************************)
EXTENDS Naturals

CONSTANTS Askers, None,
          MaxSubquestions,  \* DEEP_RESEARCH_MAX_SUBQUESTIONS
          Concurrency       \* DEEP_RESEARCH_CONCURRENCY

ASSUME ResearchAssumption ==
  MaxSubquestions \in Nat \ {0} /\ Concurrency \in Nat \ {0}

VARIABLE research   \* the run of each asker, None if it has none

(* waiting, running, answered: sub-agents. *)
Run ==
  [phase : {"planning", "agents", "fusing", "judging", "saving", "saved"},
   waiting : 0 .. MaxSubquestions, running : 0 .. Concurrency,
   answered : 0 .. MaxSubquestions]

ResearchInit == research = [k \in Askers |-> None]

In(k, phase) == research[k] # None /\ research[k].phase = phase
ToPhase(k, phase) == research' = [research EXCEPT ![k].phase = phase]

StartResearch(k) ==
  /\ research[k] = None
  /\ research' = [research EXCEPT ![k] =
       [phase |-> "planning", waiting |-> 0, running |-> 0, answered |-> 0]]

(* plan_research: one sub-question, the question itself, if there is no plan. *)
Plan(k) ==
  /\ In(k, "planning")
  /\ \E n \in 1 .. MaxSubquestions :
       research' = [research EXCEPT ![k].phase = "agents", ![k].waiting = n]

(* _run is past the semaphore. *)
StartAgent(k) ==
  /\ In(k, "agents")
  /\ research[k].waiting > 0 /\ research[k].running < Concurrency
  /\ research' = [research EXCEPT ![k].waiting = @ - 1, ![k].running = @ + 1]

(* _research_one returns, or raises and is swallowed. *)
AgentEnds(k) ==
  /\ In(k, "agents")
  /\ research[k].running > 0
  /\ research' = [research EXCEPT ![k].running = @ - 1, ![k].answered = @ + 1]

(* gather. *)
Gather(k) ==
  /\ In(k, "agents")
  /\ research[k].waiting = 0 /\ research[k].running = 0
  /\ ToPhase(k, "fusing")

Synthesize(k) == In(k, "fusing") /\ ToPhase(k, "judging")
Verify(k) == In(k, "judging") /\ ToPhase(k, "saving")

(* Planning, the synthesis, the judge or saving raises, or the client of the *)
(* stream leaves, which cancels the task and with it the sub-agents.         *)
ResearchEnds(k) ==
  /\ research[k] # None
  /\ research' = [research EXCEPT ![k] = None]

ResearchStep(k) ==
  \/ Plan(k) \/ StartAgent(k) \/ AgentEnds(k) \/ Gather(k) \/ Synthesize(k) \/ Verify(k)
=============================================================================
