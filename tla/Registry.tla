------------------------------ MODULE Registry ------------------------------
(***************************************************************************)
(* ~/.ecp/registry.json: which repositories have an index, and which       *)
(* groups they are in.  A build writes the meta of its index dir and then  *)
(* its entry; group commands, drops and prunes rewrite the file.  Each     *)
(* holds registry.json.lock over its read and its write, with one          *)
(* exception: whoever reads a file of an older version, with the lock or   *)
(* without, rebuilds it from the index dirs and writes it.  The index dirs *)
(* are guarded by no lock at all: a drop renames one away while a build    *)
(* fills it.  A process may die between any two steps.                     *)
(***************************************************************************)
EXTENDS Integers, FiniteSets

CONSTANTS
    Indexers,      \* processes that build, or look for a missing entry
    Admins,        \* processes that run the other commands
    Repos,         \* index dirs, by name
    Groups,
    Nobody,
    MaxCommands,   \* bound: commands of the admins
    MaxFaults      \* bound: deaths and lock time-outs

ASSUME ProcessAssumption == Nobody \notin Indexers \cup Admins
ASSUME GroupAssumption == Groups # {}
ASSUME BoundAssumption == MaxCommands \in Nat /\ MaxFaults \in Nat

Procs == Indexers \cup Admins

(* An entry of a group is in alias.groups of the repository and in members *)
(* of the group, which name it by its dir or by one of its aliases.        *)
Registries ==
    [current : BOOLEAN,                 \* the version is CURRENT_VERSION
     repos   : SUBSET Repos,            \* the entries
     groups  : SUBSET (Repos \X Groups),   \* alias.groups
     members : SUBSET (Repos \X Groups),   \* members, by the name of the dir
     aliased : SUBSET (Repos \X Groups)]   \* members, by an alias

AdminKinds == {"add", "add alias", "remove", "remove alias", "drop", "drop all", "ghosts", "orphans", "list"}
Sweeps == {"ghosts", "orphans"}
Kinds == AdminKinds \cup {"none", "build", "ensure"}
Points == {"idle", "meta lock", "meta", "retire", "wait", "read", "migrate", "judge", "write", "check"}

VARIABLES
    reg,       \* registry.json
    dir,       \* [Repos -> {"none", "empty", "meta"}], the index dirs
    gone,      \* repositories whose common_dir is gone
    holder,    \* registry.json.lock
    pc, kind,  \* per process: where it is, and its command
    target,    \* the repositories and groups the command is about: pairs
    seen,      \* the registry as it read it
    counts,
    mislaid,   \* history: indexes whose entry a drop or a migration lost
    overtaken  \* history: processes whose file was migrated under their lock

files == <<reg, dir, gone>>
own == <<kind, target, seen>>
vars == <<files, holder, pc, own, counts, mislaid, overtaken>>

Fresh == [current |-> TRUE, repos |-> {}, groups |-> {}, members |-> {}, aliased |-> {}]

TypeOK ==
    /\ reg \in Registries
    /\ dir \in [Repos -> {"none", "empty", "meta"}]
    /\ gone \subseteq Repos
    /\ holder \in Procs \cup {Nobody}
    /\ pc \in [Procs -> Points] /\ kind \in [Procs -> Kinds]
    /\ target \in [Procs -> SUBSET (Repos \X Groups)]
    /\ seen \in [Procs -> Registries]
    /\ counts \in [command : 0..MaxCommands, fault : 0..MaxFaults]
    /\ mislaid \subseteq Repos /\ overtaken \subseteq Procs

(* An older binary left its file, or there is none, which reads as empty.  *)
Init ==
    /\ \E c \in BOOLEAN : reg = [Fresh EXCEPT !.current = c]
    /\ dir = [r \in Repos |-> "none"]
    /\ gone = {} /\ holder = Nobody
    /\ pc = [p \in Procs |-> "idle"] /\ kind = [p \in Procs |-> "none"]
    /\ target = [p \in Procs |-> {}] /\ seen = [p \in Procs |-> Fresh]
    /\ counts = [command |-> 0, fault |-> 0]
    /\ mislaid = {} /\ overtaken = {}

------------------------------------------------------------------------------

Goto(p, point) == pc' = [pc EXCEPT ![p] = point]
Finish(p) ==
    /\ Goto(p, "idle")
    /\ holder' = IF holder = p THEN Nobody ELSE holder
    /\ kind' = [kind EXCEPT ![p] = "none"]
    /\ target' = [target EXCEPT ![p] = {}]
    /\ seen' = [seen EXCEPT ![p] = Fresh]
    /\ overtaken' = overtaken \ {p}

About(rs) == rs \X Groups
ReposOf(p) == {x[1] : x \in target[p]}
Begin(p, k, ts, point) ==
    /\ pc[p] = "idle"
    /\ kind' = [kind EXCEPT ![p] = k]
    /\ target' = [target EXCEPT ![p] = ts]
    /\ Goto(p, point)
    /\ UNCHANGED <<reg, gone, holder, seen, mislaid, overtaken>>

(* build_l2 makes the index dir first and its meta last.                   *)
StartBuild(p, r) ==
    /\ r \notin gone
    /\ Begin(p, "build", About({r}), "meta lock")
    /\ dir' = [dir EXCEPT ![r] = IF @ = "none" THEN "empty" ELSE @]
    /\ UNCHANGED counts

(* ensure_registry_entry reads without the lock.                           *)
StartEnsure(p, r) ==
    /\ Begin(p, "ensure", About({r}), "read")
    /\ UNCHANGED <<dir, counts>>

Command == counts.command < MaxCommands /\ counts' = [counts EXCEPT !.command = @ + 1]

(* The commands: one repository and one group, one repository, or all.  A  *)
(* drop opens the registry before it retires the index dir.                *)
StartAdmin(p) ==
    /\ Command /\ UNCHANGED dir
    /\ \/ \E k \in {"add", "add alias", "remove", "remove alias"} : \E r \in Repos, g \in Groups :
            Begin(p, k, {<<r, g>>}, "wait")
       \/ \E r \in Repos : Begin(p, "drop", About({r}), "read")
       \/ \E k \in {"drop all", "list"} : Begin(p, k, {}, "read")
       \/ \E k \in Sweeps : Begin(p, k, {}, "wait")

------------------------------------------------------------------------------
(* update_repo_meta: .meta.lock is in the index dir; the write of the meta *)
(* makes the dir again.                                                    *)

OpenMetaLock(p) ==
    /\ pc[p] = "meta lock"
    /\ IF \E r \in ReposOf(p) : dir[r] = "none"
       THEN Finish(p)
       ELSE Goto(p, "meta") /\ UNCHANGED <<holder, own, overtaken>>
    /\ UNCHANGED <<files, counts, mislaid>>

(* Mutant: the build does not register what it built.                      *)
WriteMetaAlone(p) ==
    /\ pc[p] = "meta"
    /\ dir' = [r \in Repos |-> IF r \in ReposOf(p) THEN "meta" ELSE dir[r]]
    /\ Finish(p)
    /\ UNCHANGED <<reg, gone, counts, mislaid>>

WriteMeta(p) ==
    /\ pc[p] = "meta"
    /\ dir' = [r \in Repos |-> IF r \in ReposOf(p) THEN "meta" ELSE dir[r]]
    /\ Goto(p, "wait")
    /\ UNCHANGED <<reg, gone, holder, own, counts, mislaid, overtaken>>

------------------------------------------------------------------------------
(* The lock, the read and the migration.                                   *)

(* Mutant: the lock is not exclusive.                                      *)
LockShared(p) ==
    /\ pc[p] = "wait"
    /\ holder' = p
    /\ Goto(p, "read")
    /\ UNCHANGED <<files, own, counts, mislaid, overtaken>>

Lock(p) ==
    /\ pc[p] = "wait" /\ holder = Nobody
    /\ holder' = p
    /\ Goto(p, "read")
    /\ UNCHANGED <<files, own, counts, mislaid, overtaken>>

LockTimeOut(p) ==
    /\ pc[p] = "wait" /\ holder # Nobody
    /\ counts.fault < MaxFaults /\ counts' = [counts EXCEPT !.fault = @ + 1]
    /\ Finish(p)
    /\ UNCHANGED <<files, mislaid>>

(* rebuild_from_disk: the indexes with a meta, and no groups.              *)
(* Mutant: the file is written without its groups.                         *)
FromDiskBare == [current |-> TRUE, repos |-> {r \in Repos : dir[r] = "meta"}]
FromDisk == [Fresh EXCEPT !.repos = {r \in Repos : dir[r] = "meta"}]

(* Where read_or_empty returns to.                                         *)
Unlocked(p) == holder # p
After(p) ==
    CASE Unlocked(p) /\ kind[p] = "ensure" -> "check"
      [] Unlocked(p) /\ kind[p] \in {"drop", "drop all"} -> "retire"
      [] Unlocked(p) /\ kind[p] = "list" -> "check"
      [] kind[p] \in Sweeps -> "judge"
      [] OTHER -> "write"

Read(p) ==
    /\ pc[p] = "read"
    /\ seen' = [seen EXCEPT ![p] = IF reg.current THEN reg ELSE FromDisk]
    /\ Goto(p, IF reg.current THEN After(p) ELSE "migrate")
    /\ UNCHANGED <<files, holder, kind, target, counts, mislaid, overtaken>>

(* The entries of indexes that a write leaves out.                         *)
Lost(next) == {r \in reg.repos \ next.repos : dir[r] = "meta"}

Migrate(p) ==
    /\ pc[p] = "migrate"
    /\ reg' = seen[p]
    /\ mislaid' = (mislaid \ seen[p].repos) \cup Lost(seen[p])
    /\ overtaken' = (overtaken \cup {holder}) \ {p, Nobody}
    /\ Goto(p, After(p))
    /\ UNCHANGED <<dir, gone, holder, own, counts>>

(* ensure_registry_entry: only an index without an entry is worth a lock.  *)
(* Mutant: an entry is looked for only where no index is.                  *)
CheckReversed(p) ==
    /\ pc[p] = "check"
    /\ IF kind[p] = "ensure" /\ \E r \in ReposOf(p) : r \notin seen[p].repos /\ dir[r] # "meta"
       THEN Goto(p, "wait") /\ UNCHANGED <<holder, own, overtaken>>
       ELSE Finish(p)
    /\ UNCHANGED <<files, counts, mislaid>>

Check(p) ==
    /\ pc[p] = "check"
    /\ IF kind[p] = "ensure" /\ \E r \in ReposOf(p) : r \notin seen[p].repos /\ dir[r] = "meta"
       THEN Goto(p, "wait") /\ UNCHANGED <<holder, own, overtaken>>
       ELSE Finish(p)
    /\ UNCHANGED <<files, counts, mislaid>>

(* The index dirs of a drop go before the lock is taken.  The dirs of all  *)
(* are those of the registry as it was opened.                             *)
Dropped(p) == IF kind[p] = "drop all" THEN seen[p].repos ELSE ReposOf(p)
Retire(rs) == dir' = [r \in Repos |-> IF r \in rs THEN "none" ELSE dir[r]]
RetireDropped(p) ==
    /\ pc[p] = "retire"
    /\ Retire(Dropped(p))
    /\ Goto(p, "wait")
    /\ mislaid' = mislaid \ Dropped(p)
    /\ UNCHANGED <<reg, gone, holder, own, counts, overtaken>>

------------------------------------------------------------------------------
(* What is written, from what was read under the lock.                     *)

Without(s, rs) ==
    [s EXCEPT !.repos = @ \ rs, !.groups = @ \ About(rs), !.members = @ \ About(rs)]

(* upsert_repo_atomic: the groups of a known entry stay.                   *)
(* Mutant: the fresh entry of a build replaces the old one, groups and all. *)
UpsertedAnew(s, rs) == [s EXCEPT !.repos = @ \cup rs, !.groups = @ \ About(rs)]
Upserted(s, rs) == [s EXCEPT !.repos = @ \cup rs]

(* `admin group add` and `remove`; the repository is to be registered.     *)
(* Mutant: the group takes a repository nobody registered.                 *)
AddedUnknown(s, ts) == [s EXCEPT !.groups = @ \cup ts, !.members = @ \cup ts]
Added(s, ts) ==
    IF {x[1] : x \in ts} \subseteq s.repos
    THEN [s EXCEPT !.groups = @ \cup ts, !.members = @ \cup ts] ELSE s
AddedByAlias(s, ts) ==
    IF {x[1] : x \in ts} \subseteq s.repos
    THEN [s EXCEPT !.groups = @ \cup ts, !.aliased = @ \cup ts] ELSE s
Removed(s, ts) == [s EXCEPT !.groups = @ \ ts, !.members = @ \ ts]
RemovedByAlias(s, ts) == [s EXCEPT !.groups = @ \ ts, !.aliased = @ \ ts]

Result(p) ==
    LET s == seen[p] IN
    CASE kind[p] \in {"build", "ensure"} -> Upserted(s, ReposOf(p))
      [] kind[p] = "add" -> Added(s, target[p])
      [] kind[p] = "add alias" -> AddedByAlias(s, target[p])
      [] kind[p] = "remove" -> Removed(s, target[p])
      [] kind[p] = "remove alias" -> RemovedByAlias(s, target[p])
      [] kind[p] = "drop all" -> Without(s, s.repos)
      [] OTHER -> Without(s, ReposOf(p))

(* The sweeps judge what they read: a ghost has no index dir, an orphan no *)
(* common_dir.  The dirs of orphans go before the write.                   *)
Judged(p) ==
    IF kind[p] = "ghosts" THEN {r \in seen[p].repos : dir[r] = "none"}
    ELSE seen[p].repos \cap gone
Judge(p) ==
    /\ pc[p] = "judge"
    /\ target' = [target EXCEPT ![p] = About(Judged(p))]
    /\ IF kind[p] = "orphans"
       THEN Retire(Judged(p)) /\ mislaid' = mislaid \ Judged(p)
       ELSE UNCHANGED <<dir, mislaid>>
    /\ Goto(p, "write")
    /\ UNCHANGED <<reg, gone, holder, kind, seen, counts, overtaken>>

Write(p) ==
    /\ pc[p] = "write"
    /\ reg' = Result(p)
    /\ mislaid' = (mislaid \ Result(p).repos) \cup
        IF kind[p] \in {"drop", "drop all"} \/ p \in overtaken THEN Lost(Result(p)) ELSE {}
    /\ Finish(p)
    /\ UNCHANGED <<dir, gone, counts>>

------------------------------------------------------------------------------
(* A death drops the lock; the user deletes a checkout.                    *)

Die(p) ==
    /\ pc[p] # "idle"
    /\ counts.fault < MaxFaults /\ counts' = [counts EXCEPT !.fault = @ + 1]
    /\ Finish(p)
    /\ UNCHANGED <<files, mislaid>>

DeleteCheckout(r) ==
    /\ r \notin gone
    /\ gone' = gone \cup {r}
    /\ UNCHANGED <<reg, dir, holder, pc, own, counts, mislaid, overtaken>>

Step(p) ==
    \/ OpenMetaLock(p) \/ WriteMeta(p) \/ Lock(p) \/ Read(p) \/ Migrate(p)
    \/ Check(p) \/ RetireDropped(p) \/ Judge(p) \/ Write(p)

Next ==
    \/ \E p \in Procs : Step(p) \/ LockTimeOut(p) \/ Die(p)
    \/ \E p \in Indexers, r \in Repos : StartBuild(p, r) \/ StartEnsure(p, r)
    \/ \E p \in Admins : StartAdmin(p)
    \/ \E r \in Repos : DeleteCheckout(r)

Spec == Init /\ [][Next]_vars

(* A process goes on, and every index is queried again (`admin index` runs *)
(* the look for the entry, whoever runs it).                               *)
FairSpec ==
    /\ Spec
    /\ \A p \in Procs : WF_vars(Step(p))
    /\ \A r \in Repos : SF_vars(\E p \in Indexers : StartEnsure(p, r))

------------------------------------------------------------------------------
(* Properties.                                                             *)

(* Between its read and its write a process has the lock, and what it read *)
(* is the file, unless the file was migrated behind its back.              *)
Holding == {"judge", "write"}
Serial == \A p \in Procs : pc[p] \in Holding =>
    holder = p /\ (p \notin overtaken => seen[p] = reg)

(* A command changes the entries and the groups of the repositories it is  *)
(* about and of no other, and a build no group: it keeps what the group     *)
(* commands and the builds of others wrote.  Only a migration without the  *)
(* lock can come between.                                                  *)
Others(p) == IF kind[p] = "drop all" THEN {} ELSE Repos \ ReposOf(p)
OthersGroups(p) == About(IF kind[p] \in {"build", "ensure"} THEN Repos ELSE Others(p))
Kept(p) ==
    /\ reg.repos \cap Others(p) = reg'.repos \cap Others(p)
    /\ reg.groups \cap OthersGroups(p) = reg'.groups \cap OthersGroups(p)
    /\ reg.members \cap OthersGroups(p) = reg'.members \cap OthersGroups(p)
    /\ reg.aliased \cap OthersGroups(p) = reg'.aliased \cap OthersGroups(p)
NoLostUpdate == [][\A p \in Procs : Write(p) /\ p \notin overtaken => Kept(p)]_vars

(* The two records of a membership: what an entry says of its groups, some *)
(* member of the group confirms, and a member by dir name is registered.   *)
(* (Members by an alias stay behind when the entry goes, and so does the   *)
(* member of the other name when a membership is removed.)                 *)
RecordsAgree ==
    /\ reg.groups \subseteq reg.members \cup reg.aliased
    /\ reg.groups \cup reg.members \subseteq About(reg.repos)

(* Nobody at work: an index with a meta has an entry, unless a drop or a   *)
(* migration took the entry after the build had written it, or a build     *)
(* died before it did.                                                     *)
AtRest == \A p \in Procs : pc[p] = "idle"
Unregistered == {r \in Repos : dir[r] = "meta" /\ r \notin reg.repos}
Registered == AtRest /\ counts.fault = 0 => Unregistered \subseteq mislaid

(* And such an index gets its entry again.                                 *)
FoundAgain == \A r \in Repos : r \in Unregistered ~> r \notin Unregistered
==============================================================================
