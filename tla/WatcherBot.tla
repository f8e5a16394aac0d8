----------------------------- MODULE WatcherBot -----------------------------
(***************************************************************************)
(* The example bot, examples/watcher_bot.ts: it listens to the same log on *)
(* its own, counts what it sees, and looks twice a second whether it is to *)
(* stop.                                                                   *)
(***************************************************************************)
EXTENDS Watcher
LOCAL INSTANCE SequencesExt

CONSTANTS MaxEvents,    \* GHOS_MAX_EVENTS, 0 for no limit
          Filters,      \* GHOS_SUBSCRIBE, each a set of names or {"*"}
          Hint          \* Hint[h]: the name the first byte of a line's payload points at

VARIABLE bot

ASSUME WatcherBotAssumption == MaxEvents \in Nat /\ DOMAIN Hint = Heads

BotInit ==
  \E filter \in Filters :
    bot = [filter |-> filter, status |-> "listening", next |-> 1, total |-> 0,
           programLogs |-> 0, eventFrames |-> 0, stop |-> FALSE]

ShouldInclude(name) == "*" \in bot.filter \/ name \in bot.filter

(* Fault: the limit is compared for equality, as if no frame could hide it. *)
AtLimit_Exactly(frames) == MaxEvents > 0 /\ frames = MaxEvents

AtLimit(frames) == MaxEvents > 0 /\ frames >= MaxEvents

(* One line: a frame the filter leaves out counts, but stops nothing.      *)
BotLine(b, head) ==
  IF head = "text" THEN b
  ELSE [b EXCEPT !.programLogs = @ + 1, !.eventFrames = @ + 1,
                 !.stop = @ \/ (ShouldInclude(Hint[head]) /\ AtLimit(b.eventFrames + 1))]

(* The rest of a transaction is counted after the limit is reached.        *)
BotHandler ==
  /\ bot.status = "listening"
  /\ bot.next <= Len(log)
  /\ bot' = FoldLeft(BotLine, [bot EXCEPT !.total = @ + 1, !.next = @ + 1], log[bot.next])
  /\ UNCHANGED watcherVars

Sigint ==
  /\ bot.status = "listening" /\ ~bot.stop
  /\ bot' = [bot EXCEPT !.stop = TRUE]
  /\ UNCHANGED watcherVars

(* The loop wakes up every 500 ms; it leaves when it finds `stop` set.     *)
BotWakes ==
  /\ bot.status = "listening" /\ bot.stop
  /\ bot' = [bot EXCEPT !.status = "removed"]
  /\ UNCHANGED watcherVars

-----------------------------------------------------------------------------
(***************************************************************************)
(* The bot and the subscriptions have the log in common, which neither of  *)
(* them writes: next to the bot transactions land.                         *)
(***************************************************************************)
BotNext ==
  \/ BotHandler \/ Sigint \/ BotWakes
  \/ (\E lines \in Lines : Lands(lines)) /\ UNCHANGED bot

botVars == <<watcherVars, bot>>

(* The timer of the bot's loop goes off whatever else happens.             *)
BotSpec ==
  WatcherInit /\ BotInit /\ [][BotNext]_botVars /\ WF_botVars(BotWakes)

-----------------------------------------------------------------------------
(* The lines of program data among those the bot was called with, and how  *)
(* many of them come before a line, that line among them.                  *)
FramesSeen ==
  {<<t, i>> \in (1 .. bot.next - 1) \X (1 .. MaxLines) : log[t][i] # "text"}

FramesUpTo(f) == Cardinality({g \in FramesSeen : g = f \/ Before(g, f)})

(***************************************************************************)
(* A bot with a limit that is shown a frame at or past the limit stops     *)
(* listening: also when the frame was not the last of its transaction,     *)
(* when the one that reached the limit was left out by the filter, and     *)
(* when more of either kind follow (watcher_bot.ts sets `stop` inside the  *)
(* loop over the lines, behind the filter).                                *)
(***************************************************************************)
LimitEndsTheBot ==
  (\E f \in FramesSeen :
       /\ ShouldInclude(Hint[log[f[1]][f[2]]])
       /\ MaxEvents > 0 /\ FramesUpTo(f) >= MaxEvents)
    ~> (bot.status = "removed")
=============================================================================
