--------------------------- MODULE GenerationStore ---------------------------
(***************************************************************************)
(* What commits/ promises, without processes, locks, reads or staging      *)
(* dirs: the builds a reader finds, those among them whose name a power    *)
(* loss cannot take, and the SHAs that keep a build from then on.  A build *)
(* is a SHA, a generation and who built it; readers use the greatest       *)
(* generation of a SHA.                                                    *)
(***************************************************************************)
EXTENDS Integers

CONSTANTS Shas, Gens, Builders

VARIABLES
    builds,     \* what a reader finds
    durable,    \* names on disk: a retired one stays until the next sync
    kept        \* SHAs promised to keep a build

storeVars == <<builds, durable, kept>>

Builds == [sha : Shas, gen : Gens, by : Builders]

BuildsOf(s) == {b \in builds : b.sha = s}

StoreInit == builds = {} /\ durable = {} /\ kept = {}

(* A new build outranks every build of its SHA; its name is not durable.   *)
PublishBuild ==
    \E b \in Builds :
        /\ builds' = builds \cup {b}
        /\ \A c \in BuildsOf(b.sha) : c.gen < b.gen
        /\ durable' = durable \ {b}
        /\ UNCHANGED kept

(* What is there now is durable, and its SHAs are kept from now on.        *)
SyncBuilds ==
    /\ durable' = builds
    /\ kept' = kept \cup {b.sha : b \in builds}
    /\ UNCHANGED builds

(* A build goes because another of its SHA, durable and of no lower        *)
(* generation, is there.                                                   *)
DropSuperseded ==
    \E b \in builds :
        /\ builds' = builds \ {b}
        /\ \E c \in BuildsOf(b.sha) \cap durable : c # b /\ b.gen <= c.gen
        /\ UNCHANGED <<durable, kept>>

(* A build nobody uses goes, once every build of its SHA is durable; the   *)
(* SHA is given up only with its last build.                               *)
Evict ==
    \E b \in builds :
        /\ builds' = builds \ {b}
        /\ BuildsOf(b.sha) \subseteq durable
        /\ kept' = IF BuildsOf(b.sha) = {b} THEN kept \ {b.sha} ELSE kept
        /\ UNCHANGED durable

(* A power loss may undo what no sync covered: a publish, a drop or an     *)
(* eviction.                                                               *)
LosePower ==
    /\ builds \cap durable \subseteq builds'
    /\ builds' \subseteq builds \cup durable
    /\ durable' = builds'
    /\ UNCHANGED kept

StoreNext ==
    PublishBuild \/ SyncBuilds \/ DropSuperseded \/ Evict \/ LosePower

StoreSpec == StoreInit /\ [][StoreNext]_storeVars

(* What a user of the store relies on: a kept SHA has a durable build.     *)
KeptIsDurable == \A s \in kept : \E b \in builds \cap durable : b.sha = s
==============================================================================
