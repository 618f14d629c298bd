------------------------------ MODULE PeerInbox ------------------------------
(***************************************************************************)
(* The inbox of one session: senders (peers and the own watcher) append    *)
(* lines, hooks take the lines the payload has room for and print them,    *)
(* the user may clear it.  All hold the lock file beside the inbox.  Under *)
(* them gc and a rebase rename the session dir away, and an append makes   *)
(* it again: a process that holds the lock of the old dir then works on    *)
(* the inbox of the new one, because both are opened by path.  A process   *)
(* may die between any two steps and half way through a write.             *)
(***************************************************************************)
EXTENDS Naturals, Sequences, FiniteSets, SequencesExt

CONSTANTS
    Senders,      \* processes that append
    Hooks,        \* processes that take and print, or clear
    Messages,
    Oversized,    \* messages no payload has room for
    Torn,         \* a line that does not parse
    Nothing,      \* no process, no message
    MaxDirs,      \* bound: how often the session dir is made
    MaxFaults     \* bound: deaths and lock time-outs

ASSUME ProcessAssumption == Senders \cap Hooks = {} /\ Oversized \subseteq Messages
ASSUME NothingAssumption ==
    Nothing \notin Senders \cup Hooks \cup Messages /\ Torn \notin Messages
ASSUME BoundAssumption == MaxDirs \in Nat \ {0} /\ MaxFaults \in Nat

Procs == Senders \cup Hooks
Dirs == 1..MaxDirs
None == 0

VARIABLES
    lines,    \* [Dirs -> Seq(Messages \cup {Torn})], inbox.jsonl
    open,     \* [Dirs -> BOOLEAN], its last line has no newline
    short,    \* [Dirs -> BOOLEAN], inbox.jsonl.gen holds fewer than 4 bytes
    holder,   \* [Dirs -> Procs \cup {Nothing}], inbox.jsonl.lock
    cur,      \* the dir at the path of the session, or None
    made,     \* how many there were
    pc, msg,  \* per process: where it is, and the message it sends
    home,     \* the dir whose lock file it opened
    fd,       \* the dir whose inbox it opened for the append
    kept,     \* the lines it writes back
    load,     \* the messages it took and has not printed
    faults,
    arrived,  \* history: the messages written whole, in order, of each dir
    taken,    \* history: the messages taken out of each dir, in order
    printed,  \* history: the messages printed, in order
    dropped,  \* history: messages cleared by the user or taken by a hook that died
    crossed   \* history: dirs used under the lock of another dir

files == <<lines, open, short>>
dirs == <<cur, made>>
own == <<msg, home, fd, kept, load>>
past == <<arrived, taken, printed, dropped, crossed>>
vars == <<files, holder, dirs, pc, own, faults, past>>

Points == {"idle", "make", "lock", "wait", "append", "tail", "gen", "line",
           "take", "replace", "count", "print",
           "clear lock", "clear wait", "clear", "clear count"}

TypeOK ==
    /\ lines \in [Dirs -> Seq(Messages \cup {Torn})]
    /\ {open, short} \subseteq [Dirs -> BOOLEAN]
    /\ holder \in [Dirs -> Procs \cup {Nothing}]
    /\ cur \in 0..MaxDirs /\ made \in 0..MaxDirs /\ cur <= made
    /\ pc \in [Procs -> Points]
    /\ msg \in [Procs -> Messages \cup {Nothing}]
    /\ {home, fd} \subseteq [Procs -> 0..MaxDirs]
    /\ {kept, load} \subseteq [Procs -> Seq(Messages)]
    /\ faults \in 0..MaxFaults
    /\ {arrived, taken} \subseteq [Dirs -> Seq(Messages)]
    /\ printed \in Seq(Messages)
    /\ dropped \subseteq Messages /\ crossed \subseteq Dirs

Init ==
    /\ lines = [d \in Dirs |-> <<>>] /\ arrived = lines /\ taken = lines
    /\ open = [d \in Dirs |-> FALSE] /\ short = open
    /\ holder = [d \in Dirs |-> Nothing]
    /\ cur = 1 /\ made = 1
    /\ pc = [p \in Procs |-> "idle"] /\ msg = [p \in Procs |-> Nothing]
    /\ home = [p \in Procs |-> None] /\ fd = home
    /\ kept = [p \in Procs |-> <<>>] /\ load = kept
    /\ faults = 0 /\ printed = <<>> /\ dropped = {} /\ crossed = {}

------------------------------------------------------------------------------

Goto(p, point) == pc' = [pc EXCEPT ![p] = point]

(* The guard falls and with it the lock; what was taken is still to print. *)
Unlock(p) == holder' = [d \in Dirs |-> IF holder[d] = p THEN Nothing ELSE holder[d]]
Forget(p) ==
    /\ msg' = [msg EXCEPT ![p] = Nothing]
    /\ home' = [home EXCEPT ![p] = None] /\ fd' = [fd EXCEPT ![p] = None]
    /\ kept' = [kept EXCEPT ![p] = <<>>]
Finish(p) ==
    /\ Unlock(p) /\ Forget(p) /\ Goto(p, "idle")
    /\ load' = [load EXCEPT ![p] = <<>>]

(* A dir used under the lock of another one.                               *)
Cross(p, d) == IF d \in Dirs /\ home[p] # d THEN crossed \cup {d} ELSE crossed

(* Mutant of IntactOf: half lines are carried forward.                     *)
IntactOrTorn(ls) == ls
IntactOf(ls) ==
    LET intact[i \in 0..Len(ls)] ==
            IF i = 0 THEN <<>>
            ELSE IF ls[i] = Torn THEN intact[i - 1] ELSE Append(intact[i - 1], ls[i])
    IN  intact[Len(ls)]
Everywhere == UNION {ToSet(arrived[d]) : d \in Dirs}

------------------------------------------------------------------------------
(* append_entry.                                                           *)

Say(p, m) ==
    /\ pc[p] = "idle"
    /\ m \notin Everywhere /\ \A q \in Procs : msg[q] # m
    /\ msg' = [msg EXCEPT ![p] = m]
    /\ Goto(p, "make")
    /\ UNCHANGED <<files, holder, dirs, home, fd, kept, load, faults, past>>

(* The parent dir is made before the lock is taken.                        *)
MakeDir(p) ==
    /\ pc[p] = "make"
    /\ cur' = (IF cur = None THEN made + 1 ELSE cur)
    /\ made' = (IF cur = None THEN made + 1 ELSE made)
    /\ Goto(p, "lock")
    /\ UNCHANGED <<files, holder, own, faults, past>>

(* InboxLock::require: the lock file is opened by path, and waited for.    *)
Wait(point) == CASE point = "lock" -> "wait" [] point = "clear lock" -> "clear wait"
OpenLock(p) ==
    /\ pc[p] \in {"lock", "clear lock"}
    /\ IF cur = None
       THEN Finish(p)
       ELSE /\ home' = [home EXCEPT ![p] = cur] /\ Goto(p, Wait(pc[p]))
            /\ UNCHANGED <<holder, msg, fd, kept, load>>
    /\ UNCHANGED <<files, dirs, faults, past>>

Locked(p) ==
    CASE pc[p] = "clear wait" -> "clear" [] p \in Senders -> "append" [] OTHER -> "take"
(* Mutant of Lock: best effort, as InboxLock::acquire has it.              *)
LockBestEffort(p) ==
    /\ pc[p] \in {"wait", "clear wait"}
    /\ holder' = [holder EXCEPT ![home[p]] = IF @ = Nothing THEN p ELSE @]
    /\ Goto(p, Locked(p))
    /\ UNCHANGED <<files, dirs, own, faults, past>>

Lock(p) ==
    /\ pc[p] \in {"wait", "clear wait"}
    /\ holder[home[p]] = Nothing
    /\ holder' = [holder EXCEPT ![home[p]] = p]
    /\ Goto(p, Locked(p))
    /\ UNCHANGED <<files, dirs, own, faults, past>>

LockTimeOut(p) ==
    /\ pc[p] \in {"wait", "clear wait"} /\ holder[home[p]] # Nothing
    /\ faults < MaxFaults /\ faults' = faults + 1
    /\ Finish(p)
    /\ UNCHANGED <<files, dirs, past>>

OpenInbox(p) ==
    /\ pc[p] = "append"
    /\ IF cur = None
       THEN Finish(p)
       ELSE /\ fd' = [fd EXCEPT ![p] = cur]
            /\ Goto(p, IF lines[cur] = <<>> THEN "gen" ELSE "tail")
            /\ UNCHANGED <<holder, msg, home, kept, load>>
    /\ UNCHANGED <<files, dirs, faults, past>>

(* ends_with_newline opens the path again; a dir changed under it answers  *)
(* for another file, or fails.  An open tail is ended before the line.     *)
(* Mutant of EndTail: it is left as it is.                                 *)
EndTailSkipped(p) == pc[p] = "tail" /\ UNCHANGED open
EndTail(p) == open' = [open EXCEPT ![fd[p]] = FALSE]
CheckTail(p) ==
    /\ pc[p] = "tail"
    /\ \/ (cur = fd[p] => open[cur]) /\ EndTail(p)
          /\ Goto(p, "line") /\ UNCHANGED <<holder, own>>
       \/ (cur = fd[p] => ~open[cur]) /\ UNCHANGED open
          /\ Goto(p, "line") /\ UNCHANGED <<holder, own>>
       \/ cur # fd[p] /\ Finish(p) /\ UNCHANGED open
    /\ crossed' = IF cur # fd[p] THEN crossed \cup {fd[p]} ELSE crossed
    /\ UNCHANGED <<lines, short, dirs, faults, arrived, taken, printed, dropped>>

(* bump_gen for the append, which fails with it: a sidecar that is short   *)
(* does not read.                                                          *)
Bump(p) ==
    /\ pc[p] = "gen"
    /\ IF cur = None \/ (cur # None /\ short[cur])
       THEN Finish(p)
       ELSE Goto(p, "line") /\ UNCHANGED <<holder, own>>
    /\ UNCHANGED <<files, dirs, faults, past>>

(* Onto a tail without a newline the line would fuse with it.              *)
WithLine(ls, m, fused) == IF fused THEN Append(Front(ls), Torn) ELSE Append(ls, m)
Arrive(d, m) == arrived' = [arrived EXCEPT ![d] = Append(@, m)]

WriteLine(p) ==
    /\ pc[p] = "line"
    /\ LET d == fd[p] IN
        /\ lines' = [lines EXCEPT ![d] = WithLine(@, msg[p], open[d])]
        /\ open' = [open EXCEPT ![d] = FALSE]
        /\ IF open[d] THEN arrived' = arrived ELSE Arrive(d, msg[p])
        /\ crossed' = Cross(p, d)
    /\ Finish(p)
    /\ UNCHANGED <<short, dirs, faults, taken, printed, dropped>>

------------------------------------------------------------------------------
(* deliver_and_consume, for a hook.                                        *)

(* pending_inboxes: one with something in it.                              *)
Drain(p) ==
    /\ pc[p] = "idle"
    /\ cur # None /\ lines[cur] # <<>>
    /\ Goto(p, "lock")
    /\ UNCHANGED <<files, holder, dirs, own, faults, past>>

(* How many messages a payload shows: at least the first, unless it is     *)
(* larger than a payload, and none past one that did not fit.              *)
(* Mutant: it may show none of them.                                       *)
FittingNone(ms) == 0..Len(ms)
Fitting(ms) ==
    {k \in 0..Len(ms) :
        /\ \A i \in 1..k : ms[i] \notin Oversized
        /\ k = 0 /\ ms # <<>> => Head(ms) \in Oversized}

Take(p) ==
    /\ pc[p] = "take"
    /\ IF cur = None \/ (cur # None /\ lines[cur] = <<>>)
       THEN Finish(p) /\ UNCHANGED crossed
       ELSE /\ LET ms == IntactOf(lines[cur]) IN
               \E k \in Fitting(ms) :
                /\ load' = [load EXCEPT ![p] = SubSeq(ms, 1, k)]
                /\ kept' = [kept EXCEPT ![p] = SubSeq(ms, k + 1, Len(ms))]
            /\ crossed' = Cross(p, cur)
            /\ Goto(p, "replace") /\ UNCHANGED <<holder, msg, home, fd>>
    /\ UNCHANGED <<files, dirs, faults, arrived, taken, printed, dropped>>

(* write_lines: the rest is written beside the inbox and renamed over it.  *)
(* A dir gone in between is an error, and the payload is not shown.        *)
Replace(p) ==
    /\ pc[p] = "replace"
    /\ IF cur = None
       THEN Finish(p) /\ UNCHANGED <<lines, open, taken, crossed>>
       ELSE /\ lines' = [lines EXCEPT ![cur] = kept[p]]
            /\ open' = [open EXCEPT ![cur] = FALSE]
            /\ taken' = [taken EXCEPT ![cur] = @ \o load[p]]
            /\ crossed' = Cross(p, cur)
            /\ Goto(p, "count") /\ UNCHANGED <<holder, own>>
    /\ UNCHANGED <<short, dirs, faults, arrived, printed, dropped>>

(* The sidecar, whatever comes of it; then the lock falls.                 *)
Count(p) ==
    /\ pc[p] = "count"
    /\ Unlock(p) /\ Forget(p) /\ UNCHANGED load
    /\ Goto(p, "print")
    /\ UNCHANGED <<files, dirs, faults, past>>

Present(p) ==
    /\ pc[p] = "print"
    /\ printed' = printed \o load[p]
    /\ Finish(p)
    /\ UNCHANGED <<files, dirs, faults, arrived, taken, dropped, crossed>>

------------------------------------------------------------------------------
(* `peers inbox --clear`: truncate_inbox.                                  *)

StartClear(p) ==
    /\ pc[p] = "idle"
    /\ Goto(p, "clear lock")
    /\ UNCHANGED <<files, holder, dirs, own, faults, past>>

Clear(p) ==
    /\ pc[p] = "clear"
    /\ IF cur = None
       THEN Finish(p) /\ UNCHANGED <<lines, open, taken, dropped, crossed>>
       ELSE /\ lines' = [lines EXCEPT ![cur] = <<>>]
            /\ open' = [open EXCEPT ![cur] = FALSE]
            /\ taken' = [taken EXCEPT ![cur] = @ \o IntactOf(lines[cur])]
            /\ dropped' = dropped \cup ToSet(IntactOf(lines[cur]))
            /\ crossed' = Cross(p, cur)
            /\ Goto(p, "clear count") /\ UNCHANGED <<holder, own>>
    /\ UNCHANGED <<short, dirs, faults, arrived, printed>>

ClearCount(p) ==
    /\ pc[p] = "clear count"
    /\ Finish(p)
    /\ UNCHANGED <<files, dirs, faults, past>>

------------------------------------------------------------------------------
(* The session dir, and death.                                             *)

(* sweep_sessions and promote_case_b rename the dir away ...               *)
RetireDir ==
    /\ cur # None /\ made < MaxDirs
    /\ cur' = None
    /\ UNCHANGED <<files, holder, made, pc, own, faults, past>>

(* ... and promote_case_b and the next query of the session make it again. *)
RemakeDir ==
    /\ cur = None
    /\ cur' = made + 1 /\ made' = made + 1
    /\ UNCHANGED <<files, holder, pc, own, faults, past>>

(* A death in the write of a line leaves a part of it, or all of it short  *)
(* of the newline.                                                         *)
TornLine(p) ==
    /\ pc[p] = "line"
    /\ LET d == fd[p] IN
       \/ UNCHANGED <<lines, open, arrived>>
       \/ \E l \in {Torn, msg[p]} :
            /\ lines' = [lines EXCEPT ![d] = WithLine(@, l, open[d])]
            /\ open' = [open EXCEPT ![d] = TRUE]
            /\ IF l = Torn \/ open[d] THEN arrived' = arrived ELSE Arrive(d, msg[p])
    /\ crossed' = Cross(p, fd[p])
    /\ UNCHANGED <<short, taken, printed, dropped>>

(* One between the truncation of the sidecar and its write leaves it short.*)
TornGen(p) ==
    /\ pc[p] \in {"gen", "count", "clear count"} /\ cur # None
    /\ short' = [short EXCEPT ![cur] = TRUE]
    /\ dropped' = IF pc[p] = "count" THEN dropped \cup ToSet(load[p]) ELSE dropped
    /\ UNCHANGED <<lines, open, arrived, taken, printed, crossed>>

DiedClean(p) ==
    /\ pc[p] \notin {"idle", "line"}
    /\ dropped' = IF pc[p] \in {"count", "print"} THEN dropped \cup ToSet(load[p]) ELSE dropped
    /\ UNCHANGED <<files, arrived, taken, printed, crossed>>

Die(p) ==
    /\ faults < MaxFaults /\ faults' = faults + 1
    /\ TornLine(p) \/ TornGen(p) \/ DiedClean(p)
    /\ Finish(p)
    /\ UNCHANGED dirs

------------------------------------------------------------------------------

Sending(p) ==
    \/ MakeDir(p) \/ OpenLock(p) \/ Lock(p)
    \/ OpenInbox(p) \/ CheckTail(p) \/ Bump(p) \/ WriteLine(p)
Draining(p) ==
    \/ Drain(p) \/ OpenLock(p) \/ Lock(p)
    \/ Take(p) \/ Replace(p) \/ Count(p) \/ Present(p)
    \/ Clear(p) \/ ClearCount(p)
Speaking(p) == \E m \in Messages : Say(p, m)

Next ==
    \/ \E p \in Senders : Speaking(p) \/ Sending(p)
    \/ \E p \in Hooks : Draining(p) \/ StartClear(p)
    \/ \E p \in Procs : LockTimeOut(p) \/ Die(p)
    \/ RetireDir \/ RemakeDir

Spec == Init /\ [][Next]_vars

(* A process that holds the lock goes on, and hooks fire while the agent   *)
(* works.  Nobody has to send, to clear or to retire.                      *)
FairSpec ==
    /\ Spec
    /\ \A p \in Senders : WF_vars(Sending(p))
    /\ \A p \in Hooks : WF_vars(Draining(p))

------------------------------------------------------------------------------
(* Properties.                                                             *)

(* What was written whole and not taken is in the file, in the order it    *)
(* was written: no line fuses with the half of another, no append meets    *)
(* the rewrite of a hook or a clear, and no death in a rewrite undoes it.  *)
(* Dirs used under the lock of another one are excepted (see the README).  *)
NothingLost ==
    \A d \in Dirs \ crossed : arrived[d] = taken[d] \o IntactOf(lines[d])

(* What was taken is printed once, unless the user cleared it or the hook  *)
(* died: a message is gone from the file before it is shown.               *)
Copies(m) ==
    Cardinality({i \in DOMAIN printed : printed[i] = m})
    + Cardinality({p \in Hooks : pc[p] \in {"count", "print"} /\ m \in ToSet(load[p])})
    + Cardinality({m} \cap dropped)
ShownOnce == \A d \in Dirs \ crossed : \A m \in ToSet(taken[d]) : Copies(m) = 1

(* A message does not stay in the inbox for good.                          *)
Waiting(m) == cur # None /\ m \in ToSet(lines[cur])
Shown == \A m \in Messages \ Oversized : Waiting(m) ~> ~Waiting(m)
==============================================================================
