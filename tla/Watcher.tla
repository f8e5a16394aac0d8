------------------------------ MODULE Watcher ------------------------------
(***************************************************************************)
(* The event subscriptions of the SDK, sdk/src/watcher.ts.  A subscription *)
(* is a callback given to Connection.onLogs: it is called with the lines   *)
(* of one transaction at a time, and calls the consumer's handler for each *)
(* event among them.  The callback runs to its end before anything else    *)
(* does; what a handler returned may settle at any time later.             *)
(*                                                                         *)
(* The connection is the library's.  It calls back in the order of the     *)
(* transactions, catches what a callback throws, and leaves out the        *)
(* transactions that land while it is being opened again.                  *)
(***************************************************************************)
EXTENDS Naturals, Sequences, FiniteSets, Functions

CONSTANTS Consumers,    \* the subscriptions
          Wanted,       \* Wanted[c]: the event `subscribe` names, or "*" for subscribeAll
          Heads,        \* what lines start with, in the transactions that land
          MaxTxs,       \* bound on the transactions
          MaxLines      \* the lines of one

(***************************************************************************)
(* The fields of each event by their types, from the `events` of the IDL.  *)
(***************************************************************************)
EventFields ==
  [ConfigInitialized |-> {"publicKey", "u16", "i64"},
   ConfigUpdated |-> {"publicKey", "u8", "i64"},
   ShieldExecuted |-> {"publicKey", "u64", "i64"},
   ConfidentialTransferSubmitted |-> {"publicKey", "i64"},
   PendingApplied |-> {"publicKey", "u64", "i64"},
   WithdrawExecuted |-> {"publicKey", "u64", "bool", "i64"},
   BurnerCreated |-> {"publicKey", "i64"},
   BurnerDestroyed |-> {"publicKey", "i64"},
   AuditorRegistered |-> {"publicKey", "bytes", "i64"},
   AuditorRotated |-> {"publicKey", "bytes", "i64"},
   MixRoundOpened |-> {"publicKey", "u64", "u8", "i64"},
   MixCommitted |-> {"publicKey", "bytes", "u8"},
   MixRevealed |-> {"publicKey", "u8"},
   MixSettled |-> {"publicKey", "u8", "i64"}]

GhosEventName == DOMAIN EventFields

(***************************************************************************)
(* Any other line: "text" is not program data, "short" is a payload of     *)
(* less than eight bytes, "foreign" one with the head of another program's *)
(* event; the transaction may call other programs than ghos.               *)
(***************************************************************************)
NoEvent == {"text", "short", "foreign"}

(* Shorter transactions are those that end in "text".                      *)
Lines == [1 .. MaxLines -> Heads]

ASSUME WatcherAssumption ==
  /\ Heads \subseteq GhosEventName \cup NoEvent
  /\ Wanted \in [Consumers -> GhosEventName \cup {"*"}]
  /\ MaxTxs \in Nat /\ MaxLines \in Nat

VARIABLES log,          \* the transactions that landed: the lines of each
          watch,        \* the subscriptions
          handled,      \* the handler calls of each consumer, in order, as <<transaction, line>>
          threw         \* threw[c]: the calls that threw instead of returning a promise

watcherVars == <<log, watch, handled, threw>>

Subscription ==
  [status : {"none", "live", "removed"},
   next : 1 .. MaxTxs + 1,              \* the next transaction the connection reports
   missed : SUBSET (1 .. MaxTxs)]       \* those it never reports

WatcherInit ==
  /\ log = <<>>
  /\ watch = [c \in Consumers |-> [status |-> "none", next |-> 1, missed |-> {}]]
  /\ handled = [c \in Consumers |-> <<>>]
  /\ threw = [c \in Consumers |-> {}]

-----------------------------------------------------------------------------
Lands(lines) ==
  /\ Len(log) < MaxTxs
  /\ log' = Append(log, lines)
  /\ UNCHANGED <<watch, handled, threw>>

(* A subscription starts with the transactions that land from then on.     *)
Subscribe(c) ==
  /\ watch[c].status = "none"
  /\ watch' = [watch EXCEPT ![c] = [status |-> "live", next |-> Len(log) + 1,
                                    missed |-> 1 .. Len(log)]]
  /\ UNCHANGED <<log, handled, threw>>

(***************************************************************************)
(* decodeEvent goes by the types decodeField knows, and throws on any      *)
(* other.  A payload that is too short decodes as zeros.                   *)
(***************************************************************************)
DecodableTypes == {"publicKey", "u64", "i64", "u16", "u8", "bytes"}

Decodes(name) == EventFields[name] \subseteq DecodableTypes

(* Whether the callback gets as far as the handler with a line.            *)
Fires(c, head) ==
  /\ head \in GhosEventName
  /\ Wanted[c] \in {"*", head}
  /\ Decodes(head)

Firing(c, t) == {i \in 1 .. Len(log[t]) : Fires(c, log[t][i])}

Ascends(s) == \A j, k \in DOMAIN s : j < k => s[j] < s[k]

Ascending(S) == CHOOSE s \in [1 .. Cardinality(S) -> S] : Ascends(s)

(* Fault: the lines of a transaction are taken from the last to the first. *)
Due_Backwards(c, t) ==
  LET fire == Ascending(Firing(c, t))
  IN  [k \in DOMAIN fire |-> <<t, fire[Len(fire) + 1 - k]>>]

(* The calls the callback makes for a transaction if no handler throws.    *)
Due(c, t) ==
  LET fire == Ascending(Firing(c, t))
  IN  [k \in DOMAIN fire |-> <<t, fire[k]>>]

(* Fault: what a handler throws ends its subscription.                     *)
Dispatch_TornDown(c) ==
  LET t == watch[c].next
      due == Due(c, t)
  IN  /\ watch[c].status = "live"
      /\ t <= Len(log)
      /\ \/ /\ handled' = [handled EXCEPT ![c] = @ \o due]
            /\ watch' = [watch EXCEPT ![c].next = t + 1]
            /\ UNCHANGED threw
         \/ \E k \in 1 .. Len(due) :
              /\ handled' = [handled EXCEPT ![c] = @ \o SubSeq(due, 1, k)]
              /\ watch' = [watch EXCEPT ![c].next = MaxTxs + 1]
              /\ threw' = [threw EXCEPT ![c] = @ \cup {due[k]}]
      /\ UNCHANGED log

(***************************************************************************)
(* One call of the callback.  What a handler's promise rejects with is     *)
(* swallowed; a handler that throws before there is a promise ends the     *)
(* loop over the lines of this transaction.                                *)
(***************************************************************************)
Dispatch(c) ==
  LET t == watch[c].next
      due == Due(c, t)
  IN  /\ watch[c].status = "live"
      /\ t <= Len(log)
      /\ watch' = [watch EXCEPT ![c].next = t + 1]
      /\ \/ /\ handled' = [handled EXCEPT ![c] = @ \o due]
            /\ UNCHANGED threw
         \/ \E k \in 1 .. Len(due) :
              /\ handled' = [handled EXCEPT ![c] = @ \o SubSeq(due, 1, k)]
              /\ threw' = [threw EXCEPT ![c] = @ \cup {due[k]}]
      /\ UNCHANGED log

(* A transaction that lands while the connection is being opened again.    *)
Miss(c) ==
  /\ watch[c].status = "live"
  /\ watch[c].next <= Len(log)
  /\ watch' = [watch EXCEPT ![c].next = @ + 1, ![c].missed = @ \cup {watch[c].next}]
  /\ UNCHANGED <<log, handled, threw>>

(* removeOnLogsListener forgets the callback; calls made are not undone.   *)
Unsubscribe(c) ==
  /\ watch[c].status = "live"
  /\ watch' = [watch EXCEPT ![c].status = "removed"]
  /\ UNCHANGED <<log, handled, threw>>

WatcherNext ==
  \/ \E lines \in Lines : Lands(lines)
  \/ \E c \in Consumers :
       Subscribe(c) \/ Dispatch(c) \/ Miss(c) \/ Unsubscribe(c)

WatcherSpec == WatcherInit /\ [][WatcherNext]_watcherVars

-----------------------------------------------------------------------------
Before(a, b) == a[1] < b[1] \/ (a[1] = b[1] /\ a[2] < b[2])

(***************************************************************************)
(* The handler calls of a consumer follow the order of the log, and none   *)
(* is made twice: the loops of watcher.ts call a handler as they come to a *)
(* line, whatever the calls before it did.                                 *)
(***************************************************************************)
HandledInLogOrder ==
  \A c \in Consumers : \A k \in 1 .. Len(handled[c]) - 1 :
    Before(handled[c][k], handled[c][k + 1])

(* The lines a consumer asked for.                                         *)
AskedFor(c, t) ==
  {<<t, i>> : i \in {i \in 1 .. Len(log[t]) : /\ log[t][i] \in GhosEventName
                                             /\ Wanted[c] \in {"*", log[t][i]}}}

Reported(c) == {t \in 1 .. Len(log) : t < watch[c].next} \ watch[c].missed

(***************************************************************************)
(* A consumer is called with nothing but events it asked for, of the       *)
(* transactions its subscription was told of; and of those it misses only  *)
(* the ones with a type decodeField lacks and those that come after a call *)
(* of its own that threw, in that call's transaction.  No other consumer's *)
(* fault and no earlier transaction's costs it an event.                   *)
(***************************************************************************)
OnlyItsOwnFaultsCostEvents ==
  \A c \in Consumers :
    LET asked == UNION {AskedFor(c, t) : t \in Reported(c)}
    IN  /\ Range(handled[c]) \subseteq asked
        /\ \A e \in asked \ Range(handled[c]) :
             \/ "bool" \in EventFields[log[e[1]][e[2]]]
             \/ \E f \in threw[c] : f[1] = e[1] /\ f[2] < e[2]

(***************************************************************************)
(* What subscribeAll says of itself: it reaches every event the program    *)
(* emits, in a transaction it was told of and none of whose calls threw.   *)
(***************************************************************************)
SubscribeAllSeesEveryEvent ==
  \A c \in Consumers : \A t \in Reported(c) :
    /\ Wanted[c] = "*"
    /\ ~\E f \in threw[c] : f[1] = t
    => AskedFor(c, t) \subseteq Range(handled[c])
=============================================================================
