----------------------------- MODULE MCClients ------------------------------
(***************************************************************************)
(* The three kinds of client, each on its own: what submits transactions   *)
(* (one SDK call, which may or may not create the account that two runs of *)
(* the CLI join with), the subscriptions (one of everything and one of the *)
(* commits) and the bot (that includes everything, or what its hints take  *)
(* for a shield).  WithdrawExecuted stands for an event with a field       *)
(* decodeField lacks.                                                      *)
(***************************************************************************)
EXTENDS Clients, WatcherBot

CONSTANTS c1, j1, j2, t1, all, commits

VARIABLE subject        \* the kind a behaviour is about

MCWanted == [c \in {all, commits} |-> IF c = all THEN "*" ELSE "MixCommitted"]
MCHeads == {"MixCommitted", "MixRevealed", "WithdrawExecuted", "text"}
MCFilters == {{"*"}, {"ShieldExecuted"}}
MCHint == [h \in MCHeads |-> IF h = "MixRevealed" THEN "MixSettled" ELSE "ShieldExecuted"]

MCInit ==
  /\ subject \in {"submission", "subscription", "bot"}
  /\ Init /\ WatcherInit
  /\ BotInit /\ (subject # "bot" => bot.filter = {"*"})

Submitting(A) == subject = "submission" /\ A /\ UNCHANGED <<botVars, subject>>

MCNext ==
  \/ Submitting(Next)
  \/ subject = "subscription" /\ WatcherNext /\ UNCHANGED <<clientVars, bot, subject>>
  \/ subject = "bot" /\ BotNext /\ UNCHANGED <<clientVars, subject>>

mcVars == <<clientVars, botVars, subject>>

(* The fairness of Clients!FairSpec and of WatcherBot!BotSpec.             *)
MCSpec ==
  /\ MCInit /\ [][MCNext]_mcVars
  /\ \A c \in SdkCalls :
       WF_mcVars(Submitting(CallStep(c) /\ UNCHANGED <<join, material>>))
  /\ \A j \in Joins : WF_mcVars(Submitting(RunStep(j) /\ UNCHANGED sdk))
  /\ WF_mcVars(subject = "bot" /\ BotWakes /\ UNCHANGED <<clientVars, subject>>)
=============================================================================
