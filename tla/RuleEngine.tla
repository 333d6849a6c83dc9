----------------------------- MODULE RuleEngine -----------------------------
(***************************************************************************)
(* The rule engine: one RuleEngine object whose rule cache, cooldowns and  *)
(* windows are read and written without a lock by every thread that        *)
(* evaluates an event (the executor threads of the syslog collectors) and  *)
(* by the event loop (fire_rule of sniff and nmap, the rules API).  A step *)
(* is a piece of code that reads or writes the shared state once; a list   *)
(* comprehension reads its list once.                                      *)
(*                                                                         *)
(* _windows is a dict of dicts of lists, and threads go on using a dict or *)
(* a list that another thread has deleted: objects are numbered as they    *)
(* are made, `windows` has the dict of a rule, `keys` the lists under the  *)
(* keys of every dict made and `entries` what is in every list.            *)
(*                                                                         *)
(* Left out: which rule an event matches (DropRule may drop any), the      *)
(* suppression patterns (a suppressed event is one not evaluated) and the  *)
(* fire counters, whose update never stops a fire.                         *)
(***************************************************************************)
EXTENDS Integers, FiniteSets

CONSTANTS
  Workers,      \* executor threads that call evaluate
  Loop,         \* the event loop thread: fire_rule and the rules API
  Rules,        \* rows of `rules`
  Groups,       \* grouping keys of windowed rules (source IP, VAP, MAC)
  Ports,        \* destination ports
  Direct,       \* rules the collectors on the event loop fire by name
  Windowed,     \* rules with window_seconds
  ByPort,       \* rules with distinct_ports_threshold
  Cooldown,     \* cooldown_seconds of each version of a rule
  Logs,         \* the versions whose action is to log: no alert, no job
  Threshold, Window,  \* of the windowed rules
  MaxAge,       \* WINDOW_ENTRY_MAX_AGE
  Pruning,      \* TRUE when WINDOW_PRUNE_INTERVAL is reached among the evaluations
  TTL,          \* RULES_CACHE_TTL
  Critic,       \* TRUE when the critic runs, in a thread of its own
  Start,        \* the clock when the process starts: 0 is long ago
  MaxTime,      \* bound: the clock's last value
  MaxLag,       \* bound: ticks a call may take
  MaxVersion,   \* bound: edits of a rule
  MaxEvents,    \* bound: events evaluated
  MaxFaults     \* bound: failed DB sessions and restarts

Versions == 0..MaxVersion
Threads  == Workers \cup {Loop}

ASSUME ConstantsAssumption ==
  /\ Loop \notin Workers
  /\ Rules # {} /\ Groups # {} /\ Ports # {}
  /\ Direct \subseteq Rules /\ Windowed \subseteq Rules /\ ByPort \subseteq Windowed
  /\ MaxVersion \in Nat /\ MaxLag \in Nat /\ MaxTime \in Nat
  /\ MaxEvents \in Nat /\ MaxFaults \in Nat
  /\ Cooldown \in [Versions -> Nat] /\ Logs \subseteq Versions
  /\ Threshold \in Nat \ {0} /\ Window \in Nat \ {0} /\ MaxAge \in Nat
  /\ TTL \in Nat \ {0}
  /\ Critic \in BOOLEAN /\ Pruning \in BOOLEAN
  /\ Start \in Nat /\ \A v \in Versions : Start >= Cooldown[v]

VARIABLES
  now, faults, events,  \* the clock, failures so far, events handed out so far
  ver, on, ended,       \* rules: version, enabled and approved; when a version was replaced
  api,                  \* the rules API, between its commit and its invalidation
  cache, cacheTs,       \* _rules_cache, _cache_ts
  last,                 \* _last_fired
  windows, keys, entries, made,  \* _windows, and how many objects were made for it
  pc, began, ev, buf, todo, cur, snap,  \* each thread's call and its locals
  held, sweep, items,   \* where it is in _windows, and what its sweep has left
  degraded,             \* the call could not read the rules and took what was cached
  when,                 \* the time the call last read
  mine,                 \* when each thread last fired each rule
  swept,                \* a sweep wrote to the list after the thread pruned it
  recorded, lost, logged  \* per rule, the fires written, lost, and only logged

dbVars     == <<ver, on, ended>>
windowVars == <<windows, keys, entries, made>>
engineVars == <<cache, cacheTs, last, windowVars>>
placeVars  == <<held, sweep, items, swept>>
callVars   == <<pc, began, ev, buf, todo, cur, snap, placeVars, degraded, when>>
fates      == <<recorded, lost, logged>>
fireVars   == <<mine, fates>>
vars       == <<now, faults, events, dbVars, api, engineVars, callVars, fireVars>>

CachedRule == [rule : Rules, ver : Versions]
Event      == [id : Nat, grp : Groups, port : Ports]
Entry      == [list : Nat, ev : Event, at : Nat]
Dict       == [rule : Rules, dict : Nat]
Key        == [rule : Rules, dict : Nat, grp : Groups, list : Nat]
NoEvent    == [id |-> 0, grp |-> CHOOSE g \in Groups : TRUE, port |-> CHOOSE p \in Ports : TRUE]
NoRule     == [rule |-> CHOOSE r \in Rules : TRUE, ver |-> 0]
NoKey      == [rule |-> NoRule.rule, dict |-> 0, grp |-> NoEvent.grp, list |-> 0]

PCs == {"idle", "sweep", "items", "assign", "check", "delete", "drop",
        "read", "install", "stamp", "pick",
        "time", "find", "create", "append", "prune", "write", "count", "clear",
        "fire", "store", "act"}

TypeOK ==
  /\ now \in Nat /\ faults \in Nat /\ events \in Nat
  /\ ver \in [Rules -> Versions] /\ on \in [Rules -> BOOLEAN]
  /\ ended \in [Rules -> [Versions -> Nat]]
  /\ api \in {"idle", "invalidate"}
  /\ cache \in SUBSET CachedRule /\ cacheTs \in Nat
  /\ last \in [Rules -> Nat] /\ windows \in [Rules -> Nat]
  /\ keys \in SUBSET Key /\ entries \in SUBSET Entry /\ made \in Nat
  /\ pc \in [Threads -> PCs] /\ began \in [Threads -> Nat]
  /\ ev \in [Threads -> Event]
  /\ buf \in [Threads -> SUBSET CachedRule] /\ todo \in [Threads -> SUBSET CachedRule]
  /\ cur \in [Threads -> CachedRule] /\ snap \in [Threads -> SUBSET Entry]
  /\ held \in [Threads -> Key] /\ sweep \in [Threads -> SUBSET Dict]
  /\ items \in [Threads -> SUBSET Key] /\ swept \in [Threads -> BOOLEAN]
  /\ degraded \in [Threads -> BOOLEAN]
  /\ mine \in [Threads -> [Rules -> Nat]] /\ when \in [Threads -> Nat]
  /\ recorded \in [Rules -> SUBSET Nat] /\ lost \in [Rules -> SUBSET Nat]
  /\ logged \in [Rules -> SUBSET Nat]

Init ==
  /\ now = Start /\ faults = 0 /\ events = 0
  /\ ver = [r \in Rules |-> 0] /\ on \in [Rules -> BOOLEAN]
  /\ ended = [r \in Rules |-> [v \in Versions |-> 0]]
  /\ api = "idle"
  /\ cache = {} /\ cacheTs = 0
  /\ last = [r \in Rules |-> 0] /\ windows = [r \in Rules |-> 0]
  /\ keys = {} /\ entries = {} /\ made = 0
  /\ pc = [t \in Threads |-> "idle"] /\ began = [t \in Threads |-> 0]
  /\ ev = [t \in Threads |-> NoEvent]
  /\ buf = [t \in Threads |-> {}] /\ todo = [t \in Threads |-> {}]
  /\ cur = [t \in Threads |-> NoRule] /\ snap = [t \in Threads |-> {}]
  /\ held = [t \in Threads |-> NoKey] /\ sweep = [t \in Threads |-> {}]
  /\ items = [t \in Threads |-> {}] /\ swept = [t \in Threads |-> FALSE]
  /\ degraded = [t \in Threads |-> FALSE]
  /\ mine = [t \in Threads |-> [r \in Rules |-> 0]]
  /\ when = [t \in Threads |-> 0]
  /\ recorded = [r \in Rules |-> {}] /\ lost = [r \in Rules |-> {}]
  /\ logged = [r \in Rules |-> {}]

(* Nothing else runs on the event loop while it is inside a call.          *)
LoopFree == pc[Loop] = "idle" /\ api = "idle"
Goto(t, l) == pc' = [pc EXCEPT ![t] = l]

(* Forgets t's locals.                                                     *)
Leave(t) ==
  /\ pc' = [pc EXCEPT ![t] = "idle"] /\ began' = [began EXCEPT ![t] = 0]
  /\ ev' = [ev EXCEPT ![t] = NoEvent] /\ cur' = [cur EXCEPT ![t] = NoRule]
  /\ held' = [held EXCEPT ![t] = NoKey] /\ swept' = [swept EXCEPT ![t] = FALSE]
  /\ sweep' = [sweep EXCEPT ![t] = {}] /\ items' = [items EXCEPT ![t] = {}]
  /\ degraded' = [degraded EXCEPT ![t] = FALSE] /\ when' = [when EXCEPT ![t] = 0]

-----------------------------------------------------------------------------
(* _get_rules: the cached rules if they are fresh, else a read of the      *)
(* database.                                                               *)
Fresh == now - cacheTs < TTL /\ cache # {}

GetRules(t) ==
  /\ began' = [began EXCEPT ![t] = now]
  /\ degraded' = [degraded EXCEPT ![t] = FALSE]
  /\ Goto(t, IF Fresh THEN "pick" ELSE "read")
  /\ todo' = [todo EXCEPT ![t] = IF Fresh THEN cache ELSE {}]
  /\ UNCHANGED <<now, faults, dbVars, api, engineVars, buf, cur, snap, placeVars, when, fireVars>>

(* An event is handed to an idle thread.                                   *)
Hand(t, g, p) ==
  /\ pc[t] = "idle" /\ events < MaxEvents
  /\ events' = events + 1
  /\ ev' = [ev EXCEPT ![t] = [id |-> events + 1, grp |-> g, port |-> p]]

Evaluate(t, g, p) == Hand(t, g, p) /\ GetRules(t)

FireRule ==
  /\ Direct # {} /\ LoopFree
  /\ events < MaxEvents
  /\ events' = events + 1
  /\ GetRules(Loop)
  /\ UNCHANGED ev

-----------------------------------------------------------------------------
(* _prune_windows, before every WINDOW_PRUNE_INTERVAL-th evaluation; two   *)
(* threads may be at it, since the evaluations are counted without a lock. *)
Of(l) == {x \in entries : x.list = l}
Assign(l, S) == entries' = (entries \ Of(l)) \cup S

EvaluatePruning(t, g, p) ==
  /\ Pruning
  /\ Hand(t, g, p)
  /\ began' = [began EXCEPT ![t] = now]
  /\ when' = [when EXCEPT ![t] = now]
  /\ sweep' = [sweep EXCEPT ![t] =
       {[rule |-> r, dict |-> windows[r]] : r \in {q \in Rules : windows[q] # 0}}]
  /\ Goto(t, "sweep")
  /\ UNCHANGED <<now, faults, dbVars, api, engineVars, fireVars,
                 buf, todo, cur, snap, held, items, swept, degraded>>

SweepUnchanged == UNCHANGED <<now, faults, events, dbVars, api, cache, cacheTs, last,
                              fireVars, began, buf, todo, cur, degraded, when>>

(* The keys of the next rule's dict, ...                                   *)
SweepRule(t) ==
  /\ pc[t] = "sweep"
  /\ \E d \in sweep[t] :
       /\ sweep' = [sweep EXCEPT ![t] = @ \ {d}]
       /\ held' = [held EXCEPT ![t] = [NoKey EXCEPT !.rule = d.rule, !.dict = d.dict]]
       /\ items' = [items EXCEPT ![t] = {k \in keys : k.dict = d.dict}]
  /\ Goto(t, "items")
  /\ SweepUnchanged /\ UNCHANGED <<windowVars, ev, snap, swept>>

(* ... for each what is kept of its list, then the assignment to it, ...   *)
SweepFilter(t) ==
  /\ pc[t] = "items"
  /\ \E k \in items[t] :
       /\ items' = [items EXCEPT ![t] = @ \ {k}]
       /\ held' = [held EXCEPT ![t] = k]
       /\ snap' = [snap EXCEPT ![t] = {x \in Of(k.list) : when[t] - x.at < MaxAge}]
  /\ Goto(t, "assign")
  /\ SweepUnchanged /\ UNCHANGED <<windowVars, ev, sweep, swept>>

SweepAssign(t) ==
  /\ pc[t] = "assign"
  /\ Assign(held[t].list, snap[t])
  /\ snap' = [snap EXCEPT ![t] = {}]
  /\ swept' = [q \in Threads |->
       swept[q] \/ (pc[q] = "count" /\ held[q].list = held[t].list)]
  /\ Goto(t, "check")
  /\ SweepUnchanged /\ UNCHANGED <<windows, keys, made, ev, held, sweep, items>>

(* ... and if nothing is left the key goes, whatever list it has by now.   *)
SweepCheck(t) ==
  /\ pc[t] = "check"
  /\ Goto(t, IF Of(held[t].list) = {} THEN "delete" ELSE "items")
  /\ SweepUnchanged /\ UNCHANGED <<windowVars, ev, snap, placeVars>>

SameKey(k, h) == k.dict = h.dict /\ k.grp = h.grp

SweepDelete(t) ==
  /\ pc[t] = "delete"
  /\ \E k \in keys : SameKey(k, held[t])
  /\ keys' = {k \in keys : ~SameKey(k, held[t])}
  /\ Goto(t, "items")
  /\ SweepUnchanged /\ UNCHANGED <<windows, entries, made, ev, snap, placeVars>>

(* So does the rule, when its dict is found empty.                         *)
SweepDone(t) ==
  /\ pc[t] = "items" /\ items[t] = {}
  /\ Goto(t, IF \E k \in keys : k.dict = held[t].dict THEN "sweep" ELSE "drop")
  /\ SweepUnchanged /\ UNCHANGED <<windowVars, ev, snap, placeVars>>

SweepDrop(t) ==
  /\ pc[t] = "drop"
  /\ windows[held[t].rule] # 0
  /\ windows' = [windows EXCEPT ![held[t].rule] = 0]
  /\ Goto(t, "sweep")
  /\ SweepUnchanged /\ UNCHANGED <<keys, entries, made, ev, snap, placeVars>>

(* KeyError: another sweep was here.  The event is not evaluated.          *)
SweepRaises(t) ==
  /\ \/ pc[t] = "delete" /\ ~\E k \in keys : SameKey(k, held[t])
     \/ pc[t] = "drop" /\ windows[held[t].rule] = 0
  /\ Leave(t)
  /\ UNCHANGED <<now, faults, events, dbVars, api, engineVars, fireVars, buf, todo, snap>>

SweepEnd(t) ==
  /\ pc[t] = "sweep" /\ sweep[t] = {}
  /\ GetRules(t)
  /\ UNCHANGED <<events, ev>>

-----------------------------------------------------------------------------
(* The SELECT of enabled, approved rules.                                  *)
ReadRules(t) ==
  /\ pc[t] = "read"
  /\ buf' = [buf EXCEPT ![t] = {[rule |-> r, ver |-> ver[r]] : r \in {q \in Rules : on[q]}}]
  /\ Goto(t, "install")
  /\ UNCHANGED <<now, faults, events, dbVars, api, engineVars, fireVars,
                 began, ev, todo, cur, snap, placeVars, degraded, when>>

(* Mutant: the stale cache is stamped as if it had been read.              *)
ReadRulesFailsStamping(t) ==
  /\ pc[t] = "read" /\ faults < MaxFaults /\ faults' = faults + 1
  /\ degraded' = [degraded EXCEPT ![t] = TRUE]
  /\ todo' = [todo EXCEPT ![t] = cache]
  /\ cacheTs' = began[t]
  /\ Goto(t, "pick")
  /\ UNCHANGED <<now, events, dbVars, api, cache, last, windowVars, fireVars,
                 began, ev, buf, cur, snap, placeVars, when>>

(* The database cannot be read: "Keep using stale cache".                  *)
ReadRulesFails(t) ==
  /\ pc[t] = "read"
  /\ faults < MaxFaults
  /\ faults' = faults + 1
  /\ degraded' = [degraded EXCEPT ![t] = TRUE]
  /\ todo' = [todo EXCEPT ![t] = cache]
  /\ Goto(t, "pick")
  /\ UNCHANGED <<now, events, dbVars, api, engineVars, fireVars, began, ev, buf, cur, snap, placeVars, when>>

InstallRules(t) ==
  /\ pc[t] = "install"
  /\ cache' = buf[t]
  /\ buf' = [buf EXCEPT ![t] = {}]
  /\ Goto(t, "stamp")
  /\ UNCHANGED <<now, faults, events, dbVars, api, cacheTs, last, windowVars, fireVars,
                 began, ev, todo, cur, snap, placeVars, degraded, when>>

(* _cache_ts gets the time the call began, whatever happened to it since;  *)
(* the list used is the one cached by now.                                 *)
StampRules(t) ==
  /\ pc[t] = "stamp"
  /\ cacheTs' = began[t]
  /\ todo' = [todo EXCEPT ![t] = cache]
  /\ Goto(t, "pick")
  /\ UNCHANGED <<now, faults, events, dbVars, api, cache, last, windowVars, fireVars,
                 began, ev, buf, cur, snap, placeVars, degraded, when>>

-----------------------------------------------------------------------------
(* The rules of the list in turn: match, cooldown, window, fire.  The      *)
(* check reads the clock before _last_fired: a fire stored in between      *)
(* makes it drop a rule, which DropRule may do anyway.                     *)
CooledEarly(x) == now - last[x.rule] >= Cooldown[x.ver] - 1  \* mutant: off by one
Cooled(x) == Cooldown[x.ver] = 0 \/ now - last[x.rule] >= Cooldown[x.ver]

(* The rule does not match, is cooling down, or knows the device.          *)
DropRule(t) ==
  /\ pc[t] = "pick"
  /\ \E x \in todo[t] : todo' = [todo EXCEPT ![t] = @ \ {x}]
  /\ UNCHANGED <<now, faults, events, dbVars, api, engineVars, fireVars,
                 pc, began, ev, buf, cur, snap, placeVars, degraded, when>>

(* Mutant: the check itself starts the cooldown.                           *)
CheckCooldownStarting(t) ==
  /\ pc[t] = "pick"
  /\ \E x \in todo[t] :
       /\ Cooled(x) /\ (t = Loop => x.rule \in Direct)
       /\ cur' = [cur EXCEPT ![t] = x]
       /\ last' = [last EXCEPT ![x.rule] = now]
       /\ todo' = [todo EXCEPT ![t] = @ \ {x}]
       /\ Goto(t, IF t # Loop /\ x.rule \in Windowed THEN "time" ELSE "fire")
  /\ UNCHANGED <<now, faults, events, dbVars, api, cache, cacheTs, windowVars, fireVars,
                 began, ev, buf, snap, placeVars, degraded, when>>

CheckCooldown(t) ==
  /\ pc[t] = "pick"
  /\ \E x \in todo[t] :
       /\ Cooled(x) /\ (t = Loop => x.rule \in Direct)
       /\ cur' = [cur EXCEPT ![t] = x]
       /\ todo' = [todo EXCEPT ![t] = @ \ {x}]
       /\ Goto(t, IF t # Loop /\ x.rule \in Windowed THEN "time" ELSE "fire")
  /\ UNCHANGED <<now, faults, events, dbVars, api, engineVars, fireVars,
                 began, ev, buf, snap, placeVars, degraded, when>>

Return(t) ==
  /\ pc[t] = "pick" /\ todo[t] = {}
  /\ Leave(t)
  /\ UNCHANGED <<now, faults, events, dbVars, api, engineVars, fireVars, buf, todo, snap>>

(* _check_windowed: the time, then the list of the rule and the group.     *)
ReadTime(t) ==
  /\ pc[t] = "time"
  /\ when' = [when EXCEPT ![t] = now]
  /\ Goto(t, "find")
  /\ UNCHANGED <<now, faults, events, dbVars, api, engineVars, fireVars,
                 began, ev, buf, todo, cur, snap, placeVars, degraded>>

KeyOf(t, d, l) == [rule |-> cur[t].rule, dict |-> d, grp |-> ev[t].grp, list |-> l]

FindList(t) ==
  /\ pc[t] = "find" /\ windows[cur[t].rule] # 0
  /\ LET d == windows[cur[t].rule]
         found == {k \in keys : k.dict = d /\ k.grp = ev[t].grp}
     IN IF found # {}
        THEN /\ held' = [held EXCEPT ![t] = CHOOSE k \in found : TRUE]
             /\ UNCHANGED <<keys, made>>
        ELSE /\ made' = made + 1
             /\ held' = [held EXCEPT ![t] = KeyOf(t, d, made + 1)]
             /\ keys' = keys \cup {KeyOf(t, d, made + 1)}
  /\ Goto(t, "append")
  /\ UNCHANGED <<now, faults, events, dbVars, api, cache, cacheTs, last, windows, entries, fireVars,
                 began, ev, buf, todo, cur, snap, sweep, items, swept, degraded, when>>

(* The rule has no dict: the factory of the defaultdict runs, and what it  *)
(* makes replaces the dict another thread may have made meanwhile.         *)
MissDict(t) ==
  /\ pc[t] = "find" /\ windows[cur[t].rule] = 0
  /\ Goto(t, "create")
  /\ UNCHANGED <<now, faults, events, dbVars, api, engineVars, fireVars,
                 began, ev, buf, todo, cur, snap, placeVars, degraded, when>>

CreateDict(t) ==
  /\ pc[t] = "create"
  /\ made' = made + 2
  /\ windows' = [windows EXCEPT ![cur[t].rule] = made + 1]
  /\ held' = [held EXCEPT ![t] = KeyOf(t, made + 1, made + 2)]
  /\ keys' = keys \cup {KeyOf(t, made + 1, made + 2)}
  /\ Goto(t, "append")
  /\ UNCHANGED <<now, faults, events, dbVars, api, cache, cacheTs, last, entries, fireVars,
                 began, ev, buf, todo, cur, snap, sweep, items, swept, degraded, when>>

Size(r, S) == IF r \in ByPort THEN Cardinality({x.ev.port : x \in S}) ELSE Cardinality(S)

AppendEntry(t) ==
  /\ pc[t] = "append"
  /\ entries' = entries \cup {[list |-> held[t].list, ev |-> ev[t], at |-> when[t]]}
  /\ Goto(t, "prune")
  /\ UNCHANGED <<now, faults, events, dbVars, api, cache, cacheTs, last, windows, keys, made,
                 fireVars, began, ev, buf, todo, cur, snap, placeVars, degraded, when>>

(* Mutant: the window never slides.                                        *)
PruneEntriesNever(t) ==
  /\ pc[t] = "prune"
  /\ snap' = [snap EXCEPT ![t] = Of(held[t].list)]
  /\ Goto(t, "write")
  /\ UNCHANGED <<now, faults, events, dbVars, api, engineVars, fireVars,
                 began, ev, buf, todo, cur, placeVars, degraded, when>>

(* entries[:] = [...] in two steps: what is kept, then the assignment.     *)
PruneEntries(t) ==
  /\ pc[t] = "prune"
  /\ snap' = [snap EXCEPT ![t] = {x \in Of(held[t].list) : x.at >= when[t] - Window}]
  /\ Goto(t, "write")
  /\ UNCHANGED <<now, faults, events, dbVars, api, engineVars, fireVars,
                 began, ev, buf, todo, cur, placeVars, degraded, when>>

WriteEntries(t) ==
  /\ pc[t] = "write"
  /\ Assign(held[t].list, snap[t])
  /\ snap' = [snap EXCEPT ![t] = {}]
  /\ swept' = [swept EXCEPT ![t] = FALSE]
  /\ Goto(t, "count")
  /\ UNCHANGED <<now, faults, events, dbVars, api, cache, cacheTs, last, windows, keys, made,
                 fireVars, began, ev, buf, todo, cur, held, sweep, items, degraded, when>>

(* Threshold reached: the list is cleared and the rule fires.              *)
CountEntries(t) ==
  /\ pc[t] = "count"
  /\ IF Size(cur[t].rule, Of(held[t].list)) >= Threshold
     THEN /\ snap' = [snap EXCEPT ![t] = Of(held[t].list)]
          /\ Goto(t, "clear")
          /\ UNCHANGED held
     ELSE /\ held' = [held EXCEPT ![t] = NoKey]
          /\ Goto(t, "pick")
          /\ UNCHANGED snap
  /\ UNCHANGED <<now, faults, events, dbVars, api, engineVars, fireVars,
                 began, ev, buf, todo, cur, sweep, items, swept, degraded, when>>

ClearEntries(t) ==
  /\ pc[t] = "clear"
  /\ Assign(held[t].list, {})
  /\ held' = [held EXCEPT ![t] = NoKey]
  /\ Goto(t, "fire")
  /\ UNCHANGED <<now, faults, events, dbVars, api, cache, cacheTs, last, windows, keys, made,
                 fireVars, began, ev, buf, todo, cur, snap, sweep, items, swept, degraded, when>>

(* _do_fire: the time, the start of the cooldown with it, then the alert   *)
(* or job, if the rule does not only log.                                  *)
Fire(t) ==
  /\ pc[t] = "fire"
  /\ when' = [when EXCEPT ![t] = now]
  /\ snap' = [snap EXCEPT ![t] = {}]
  /\ swept' = [swept EXCEPT ![t] = FALSE]
  /\ Goto(t, "store")
  /\ UNCHANGED <<now, faults, events, dbVars, api, engineVars, fireVars,
                 began, ev, buf, todo, cur, held, sweep, items, degraded>>

StartCooldown(t) ==
  /\ pc[t] = "store"
  /\ last' = [last EXCEPT ![cur[t].rule] = when[t]]
  /\ mine' = [mine EXCEPT ![t][cur[t].rule] = when[t]]
  /\ Goto(t, "act")
  /\ UNCHANGED <<now, faults, events, dbVars, api, cache, cacheTs, windowVars, fates,
                 began, ev, buf, todo, cur, snap, placeVars, degraded, when>>

Noted(f, t) == [f EXCEPT ![cur[t].rule] = @ \cup {when[t]}]

WriteRecord(t) ==
  /\ pc[t] = "act" /\ cur[t].ver \notin Logs
  /\ recorded' = Noted(recorded, t)
  /\ Goto(t, "pick")
  /\ UNCHANGED <<now, faults, events, dbVars, api, engineVars, mine, lost, logged,
                 began, ev, buf, todo, cur, snap, placeVars, degraded, when>>

(* The insert fails and is logged; the cooldown stands.                    *)
LoseRecord(t) ==
  /\ pc[t] = "act" /\ cur[t].ver \notin Logs
  /\ faults < MaxFaults
  /\ faults' = faults + 1
  /\ lost' = Noted(lost, t)
  /\ Goto(t, "pick")
  /\ UNCHANGED <<now, events, dbVars, api, engineVars, mine, recorded, logged,
                 began, ev, buf, todo, cur, snap, placeVars, degraded, when>>

OnlyLog(t) ==
  /\ pc[t] = "act" /\ cur[t].ver \in Logs
  /\ logged' = Noted(logged, t)
  /\ Goto(t, "pick")
  /\ UNCHANGED <<now, faults, events, dbVars, api, engineVars, mine, recorded, lost,
                 began, ev, buf, todo, cur, snap, placeVars, degraded, when>>

-----------------------------------------------------------------------------
(* The rules API and the critic commit a new version of a rule.            *)
Commit(r, b) ==
  /\ ver[r] < MaxVersion
  /\ ver' = [ver EXCEPT ![r] = @ + 1]
  /\ on' = [on EXCEPT ![r] = b]
  /\ ended' = [ended EXCEPT ![r][ver[r]] = now]
  /\ UNCHANGED <<now, faults, events, engineVars, callVars, fireVars>>

(* update_rule and the dashboard's edits invalidate the cache afterwards;  *)
(* approve, rollback, create and delete do not, and the critic, in its own *)
(* thread, invalidates it for every change before it commits them all.     *)
UpdateRule(r, b) == LoopFree /\ Commit(r, b) /\ api' = "invalidate"
EditQuietly(r, b) == (LoopFree \/ Critic) /\ Commit(r, b) /\ UNCHANGED api

(* Mutant: the stamp is aged by the time to live.                          *)
InvalidateAgeing ==
  /\ api = "invalidate" /\ api' = "idle"
  /\ cacheTs' = cacheTs - TTL
  /\ UNCHANGED <<now, faults, events, dbVars, cache, last, windowVars, callVars, fireVars>>

Invalidate ==
  /\ api = "invalidate"
  /\ cacheTs' = 0
  /\ api' = "idle"
  /\ UNCHANGED <<now, faults, events, dbVars, cache, last, windowVars, callVars, fireVars>>

CriticInvalidates ==
  /\ Critic
  /\ cacheTs' = 0
  /\ UNCHANGED <<now, faults, events, dbVars, api, cache, last, windowVars, callVars, fireVars>>

-----------------------------------------------------------------------------
(* No call, and no sweep before one, lasts longer than MaxLag.             *)
Tick ==
  /\ now < MaxTime
  /\ \A t \in Threads : pc[t] # "idle" => now - began[t] < MaxLag
  /\ now' = now + 1
  /\ UNCHANGED <<faults, events, dbVars, api, engineVars, callVars, fireVars>>

(* A restart forgets the cache, the cooldowns and the windows.             *)
Restart ==
  /\ faults < MaxFaults
  /\ faults' = faults + 1
  /\ api' = "idle"
  /\ cache' = {} /\ cacheTs' = 0
  /\ last' = [r \in Rules |-> 0] /\ windows' = [r \in Rules |-> 0]
  /\ keys' = {} /\ entries' = {} /\ made' = 0
  /\ pc' = [t \in Threads |-> "idle"] /\ began' = [t \in Threads |-> 0]
  /\ ev' = [t \in Threads |-> NoEvent] /\ cur' = [t \in Threads |-> NoRule]
  /\ buf' = [t \in Threads |-> {}] /\ todo' = [t \in Threads |-> {}]
  /\ snap' = [t \in Threads |-> {}] /\ when' = [t \in Threads |-> 0]
  /\ held' = [t \in Threads |-> NoKey] /\ sweep' = [t \in Threads |-> {}]
  /\ items' = [t \in Threads |-> {}] /\ swept' = [t \in Threads |-> FALSE]
  /\ degraded' = [t \in Threads |-> FALSE]
  /\ mine' = [t \in Threads |-> [r \in Rules |-> 0]]
  /\ UNCHANGED <<now, events, dbVars, fates>>

SweepStep(t) ==
  \/ SweepRule(t)
  \/ SweepFilter(t)
  \/ SweepAssign(t)
  \/ SweepCheck(t)
  \/ SweepDelete(t)
  \/ SweepDone(t)
  \/ SweepDrop(t)
  \/ SweepRaises(t)
  \/ SweepEnd(t)

WindowStep(t) ==
  \/ ReadTime(t)
  \/ FindList(t)
  \/ MissDict(t)
  \/ CreateDict(t)
  \/ AppendEntry(t)
  \/ PruneEntries(t)
  \/ WriteEntries(t)
  \/ CountEntries(t)
  \/ ClearEntries(t)

ThreadStep(t) ==
  \/ ReadRules(t)
  \/ ReadRulesFails(t)
  \/ InstallRules(t)
  \/ StampRules(t)
  \/ DropRule(t)
  \/ CheckCooldown(t)
  \/ Return(t)
  \/ WindowStep(t)
  \/ Fire(t)
  \/ StartCooldown(t)
  \/ WriteRecord(t)
  \/ LoseRecord(t)
  \/ OnlyLog(t)

Next ==
  \/ \E t \in Workers, g \in Groups, p \in Ports : Evaluate(t, g, p)
  \/ \E t \in Workers, g \in Groups, p \in Ports : EvaluatePruning(t, g, p)
  \/ FireRule
  \/ \E t \in Workers : SweepStep(t)
  \/ \E t \in Threads : ThreadStep(t)
  \/ \E r \in Rules, b \in BOOLEAN : UpdateRule(r, b)
  \/ \E r \in Rules, b \in BOOLEAN : EditQuietly(r, b)
  \/ Invalidate
  \/ CriticInvalidates
  \/ Tick
  \/ Restart

Spec == Init /\ [][Next]_vars

-----------------------------------------------------------------------------
(* A rule a thread fires is one it has not fired within that rule's        *)
(* cooldown, but for the time another thread may hold a stamp it has read  *)
(* before it stores it over a later one: however the threads interleave, a *)
(* thread fires a rule at most once in any period that much shorter than   *)
(* the cooldown (engine.py:397-407, 452).                                  *)
Fires(t, r) == pc[t] = "fire" /\ pc'[t] = "store" /\ cur[t].rule = r
CooldownPerThread ==
  [][\A t \in Threads, r \in Rules :
       Fires(t, r) => \/ mine[t][r] = 0
                      \/ now - mine[t][r] >= Cooldown[cur[t].ver] - MaxLag]_vars

(* An edited, disabled or deleted rule is not acted on for longer than the *)
(* cache's time to live and two calls' length, whatever refreshes overlap  *)
(* it, unless the database could not be read (engine.py:193-228).          *)
StalenessIsBounded ==
  \A t \in Threads :
    pc[t] = "fire" /\ ~degraded[t] /\ cur[t].ver < ver[cur[t].rule]
      => now - ended[cur[t].rule][cur[t].ver] < TTL + 2 * MaxLag

(* A rule is silenced by its cooldown only when the alert or job of the    *)
(* fire that started it exists, is being written, or failed to be written, *)
(* or that fire was one of a version that only logs: engine.py:452 sets    *)
(* the cooldown before anything is in the database, and 462-468 may write  *)
(* nothing there.                                                          *)
SilenceHasRecord ==
  \A r \in Rules :
    \/ last[r] \in {0} \cup recorded[r] \cup lost[r] \cup logged[r]
    \/ \E t \in Threads : pc[t] = "act" /\ cur[t].rule = r /\ when[t] = last[r]

(* What a windowed rule fires on reaches its threshold and lies within its *)
(* window, give or take two calls' length: one by which a thread can write *)
(* back entries pruned since it looked, one by which an entry can be newer *)
(* than the call that counts it (engine.py:324-369).  When a sweep wrote   *)
(* back what it had read before the thread pruned the list, the entries of *)
(* the last WINDOW_ENTRY_MAX_AGE count instead (engine.py:568).            *)
Longer(a, b) == IF a >= b THEN a ELSE b
Span(t) == IF swept[t] THEN Longer(Window, MaxAge) ELSE Window
WindowHolds ==
  \A t \in Workers :
    pc[t] = "fire" /\ cur[t].rule \in Windowed =>
      /\ Size(cur[t].rule, snap[t]) >= Threshold
      /\ \A x, y \in snap[t] : x.at - y.at <= Span(t) + 2 * MaxLag
=============================================================================
