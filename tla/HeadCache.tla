------------------------------ MODULE HeadCache ------------------------------
(***************************************************************************)
(* The HEAD a process remembers: head_sha of git_cache.rs, for one worktree*)
(* and a process that stays, beside git commands in the same worktree.     *)
(*                                                                         *)
(* A file that git writes gets the next mtime, so no two writes share one. *)
(***************************************************************************)
EXTENDS Naturals

CONSTANTS
    Branches,  \* the branches of the repository
    Detached,  \* no branch: HEAD names a commit
    MaxWrites  \* bound of the git commands

NoTime == 0
Times == 0..MaxWrites
Commits == 0..(MaxWrites + 1)
None == MaxWrites + 1   \* the mtime of no file

VARIABLES
    head,      \* what .git/HEAD names: a branch, or Detached
    tip,       \* the commit of each branch and, under Detached, of HEAD itself
    loose,     \* the mtime of each branch's ref file, NoTime where it is packed
    packed,    \* the mtime of packed-refs
    headFile,  \* the mtime of .git/HEAD
    now,       \* how many commands git ran
    cache,     \* the entry of the worktree: a commit and the mtime it was read under
    call       \* the call of head_sha that runs

vars == <<head, tip, loose, packed, headFile, now, cache, call>>
git == <<head, tip, loose, packed, headFile, now>>

HeadSha == tip[head]
Idle == [pc |-> "idle", stamp |-> NoTime, sha |-> 0, quiet |-> FALSE]

TypeOK ==
    /\ head \in Branches \cup {Detached} /\ tip \in [Branches \cup {Detached} -> Commits]
    /\ loose \in [Branches -> Times] /\ {packed, headFile, now} \subseteq Times
    /\ cache \in [sha : Commits, stamp : Times \cup {None}]
    /\ call \in [pc : {"idle", "compare", "read", "answer"}, stamp : Times, sha : Commits,
                 quiet : BOOLEAN]

Init ==
    /\ head \in Branches
    /\ tip \in [Branches \cup {Detached} -> {0, 1}]
    /\ loose = [b \in Branches |-> NoTime] /\ packed = NoTime
    /\ headFile = NoTime /\ now = 0
    /\ cache = [sha |-> 0, stamp |-> None]
    /\ call = Idle

-----------------------------------------------------------------------------
(* git, run by the user.                                                   *)

Git ==
    /\ now < MaxWrites /\ now' = now + 1
    /\ call' = [call EXCEPT !.quiet = FALSE]
    /\ UNCHANGED cache

(* A new commit gets the next number.                                      *)
Commit ==
    /\ Git
    /\ tip' = [tip EXCEPT ![head] = now' + 1]
    /\ IF head = Detached THEN headFile' = now' /\ UNCHANGED loose
       ELSE loose' = [loose EXCEPT ![head] = now'] /\ UNCHANGED headFile
    /\ UNCHANGED <<head, packed>>

Checkout ==
    /\ Git
    /\ head' \in Branches \ {head}
    /\ headFile' = now'
    /\ UNCHANGED <<tip, loose, packed>>

Detach ==
    /\ Git
    /\ head' = Detached /\ tip' = [tip EXCEPT ![Detached] = HeadSha]
    /\ headFile' = now'
    /\ UNCHANGED <<loose, packed>>

(* `git pack-refs --all`, which `git gc` runs.                             *)
PackRefs ==
    /\ Git
    /\ packed' = now' /\ loose' = [b \in Branches |-> NoTime]
    /\ UNCHANGED <<head, tip, headFile>>

-----------------------------------------------------------------------------
(* head_sha.                                                               *)

(* head_file_mtime: of HEAD where it is detached, else of the file the     *)
(* branch is in.                                                           *)
Sentinel ==
    IF head = Detached THEN headFile
    ELSE IF loose[head] # NoTime THEN loose[head] ELSE packed

Stat ==
    /\ call.pc = "idle"
    /\ call' = [Idle EXCEPT !.pc = "compare", !.stamp = Sentinel, !.quiet = TRUE]
    /\ UNCHANGED <<git, cache>>

Hit ==
    /\ call.pc = "compare" /\ cache.stamp = call.stamp
    /\ call' = [call EXCEPT !.pc = "answer", !.sha = cache.sha]
    /\ UNCHANGED <<git, cache>>

Miss ==
    /\ call.pc = "compare" /\ cache.stamp # call.stamp
    /\ call' = [call EXCEPT !.pc = "read"]
    /\ UNCHANGED <<git, cache>>

(* read_head_sha, and the entry under the mtime of before the read.        *)
Read ==
    /\ call.pc = "read"
    /\ call' = [call EXCEPT !.pc = "answer", !.sha = HeadSha]
    /\ cache' = [sha |-> HeadSha, stamp |-> call.stamp]
    /\ UNCHANGED git

Return ==
    /\ call.pc = "answer"
    /\ call' = Idle
    /\ UNCHANGED <<git, cache>>

Next ==
    \/ Commit \/ Checkout \/ Detach \/ PackRefs
    \/ Stat \/ Hit \/ Miss \/ Read \/ Return

Spec == Init /\ [][Next]_vars

-----------------------------------------------------------------------------
(* A call of head_sha during which git writes nothing answers HEAD: commits*)
(* and checkouts since the entry was stored make it miss.                  *)
HeadSeen == call.pc = "answer" /\ call.quiet => call.sha = HeadSha
=============================================================================
