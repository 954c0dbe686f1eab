----------------------------- MODULE BuildGuard -----------------------------
(***************************************************************************)
(* codex_build_guard.ts, the check dev-pm runs on a build worktree before   *)
(* it commits or pushes.  The guard asks git for the changed paths, then    *)
(* for each path's content, so it runs over several awaited commands while  *)
(* the worktree may still change.  A path stands for what the guard tells   *)
(* apart in it; a content is clean or holds a secret.  git is external; a   *)
(* committed range is the difference of its ends, as the guard sees it.     *)
(***************************************************************************)
EXTENDS Integers, FiniteSets

CONSTANTS Path,         \* repo-relative paths of files
          Folder,       \* Folder[p]: the directory of p, or p itself at the top
          Manifest,     \* the names matched by allowedManifest
          Protected,    \* the names matched by the deny patterns
          Unsafe,       \* absolute paths and paths with a ".." part
          MaxWrites,    \* bound: edits, stagings and commits of the worker
          MaxFaults     \* bound: failed git commands

\* What git may name: a file, or a directory.
Name == Path \cup {Folder[p] : p \in Path}

GuardAssumption ==
    /\ DOMAIN Folder = Path /\ \A p \in Path : Folder[p] \in Path => Folder[p] = p
    /\ Manifest \cup Protected \cup Unsafe \subseteq Name

Content == {"absent", "clean", "secret"}

VARIABLES mode,       \* "committed-range" or "working-tree"
          head,       \* [Path -> content committed on the branch]
          base,       \* [Path -> content at baseRef]
          index,      \* [Path -> content staged]
          tree,       \* [Path -> content in the worktree]
          gpc,        \* where the guard is: "off", "diff", "status", "read", "over"
          changed,    \* changedFiles
          toread,     \* changed files not yet scanned
          unseen,     \* history: paths git left out of the diff, as the old names of renames
          unread,     \* history: files skipped because git cat-file failed
          viol,       \* violations found: records [kind, path]
          verdict,    \* "none", "ok", "refused"
          moved,      \* history: the worker changed something after the guard's first command
          gwrites, gfaults

gvars == <<mode, head, base, index, tree, gpc, changed, toread, unseen, unread, viol, verdict,
           moved, gwrites, gfaults>>

Init ==
    /\ mode \in {"committed-range", "working-tree"}
    /\ base \in [Path -> {"absent", "clean"}] /\ head = base /\ index = base /\ tree = base
    /\ gpc = "off" /\ changed = {} /\ toread = {} /\ unseen = {} /\ unread = {}
    /\ viol = {} /\ verdict = "none"
    /\ moved = FALSE /\ gwrites = 0 /\ gfaults = 0

\* The worker edits a file, stages one, commits what is staged, or everything.
Worker ==
    /\ gwrites < MaxWrites /\ gwrites' = gwrites + 1 /\ gpc # "over"
    /\ \/ \E p \in Path, c \in Content : tree' = [tree EXCEPT ![p] = c] /\ UNCHANGED <<index, head>>
       \/ \E p \in Path : index' = [index EXCEPT ![p] = tree[p]] /\ UNCHANGED <<tree, head>>
       \/ head' = index /\ UNCHANGED <<index, tree>>
       \/ head' = tree /\ index' = tree /\ UNCHANGED tree
    /\ moved' = (moved \/ gpc # "off")
    /\ UNCHANGED <<mode, base, gpc, changed, toread, unseen, unread, viol, verdict, gfaults>>

Differs(a, b) == {p \in Path : a[p] # b[p]}

\* A git command fails: the guard's catch refuses.
Broken ==
    /\ gpc \in {"off", "status"} \/ (gpc = "read" /\ toread # {})
    /\ gfaults < MaxFaults /\ gfaults' = gfaults + 1
    /\ gpc' = "over" /\ verdict' = "refused"
    /\ UNCHANGED <<mode, head, base, index, tree, changed, toread, unseen, unread, viol, moved,
                   gwrites>>

\* Mutant of pathViolations: an unsafe path is skipped without a word.
pathViolationsLax(files) ==
    LET safe == files \ Unsafe
    IN  {[kind |-> "out-of-manifest", path |-> p] : p \in safe \ Manifest}
          \cup {[kind |-> "protected-path", path |-> p] : p \in safe \cap Protected}

\* The checks on the names of the changed files.
pathViolations(files) ==
    LET safe == files \ Unsafe
    IN  {[kind |-> "unsafe-path", path |-> p] : p \in files \cap Unsafe}
          \cup {[kind |-> "out-of-manifest", path |-> p] : p \in safe \ Manifest}
          \cup {[kind |-> "protected-path", path |-> p] : p \in safe \cap Protected}

\* git pairs a deleted path with an added one of the same content as a rename, and a diff with
\* --name-only names the new path only.  (Status records name both.)
RenamedFrom(a, b) ==
    {p \in Path : /\ a[p] # "absent" /\ b[p] = "absent"
                  /\ \E q \in Path : a[q] = "absent" /\ b[q] = a[p]}

\* git status names the paths staged, the tracked ones changed since, and the untracked ones; but
\* an untracked directory is one record, whatever is in it (there is no -uall).
Untracked == {p \in Path : index[p] = "absent" /\ tree[p] # "absent"}
record(p) ==
    IF \E q \in Path : Folder[q] = Folder[p] /\ index[q] # "absent" THEN p ELSE Folder[p]
StatusNames ==
    Differs(head, index) \cup (Differs(index, tree) \ Untracked) \cup {record(p) : p \in Untracked}

\* git diff base..HEAD, or git status in working-tree mode: the changed files.
Changed ==
    /\ gpc = "off"
    /\ IF mode = "committed-range"
       THEN /\ unseen' \in SUBSET RenamedFrom(base, head)
            /\ changed' = Differs(base, head) \ unseen'
       ELSE changed' = StatusNames /\ UNCHANGED unseen
    /\ gpc' = IF mode = "committed-range" THEN "status" ELSE "read"
    /\ toread' = IF mode = "working-tree" THEN changed' \ Unsafe ELSE {}
    /\ viol' = IF mode = "working-tree" THEN pathViolations(changed') ELSE {}
    /\ UNCHANGED <<mode, head, base, index, tree, unread, verdict, moved, gwrites, gfaults>>

\* Mutant of Status: a dirty worktree is not looked at.
StatusSkipped ==
    /\ gpc = "status" /\ gpc' = "read" /\ toread' = changed \ Unsafe
    /\ viol' = pathViolations(changed)
    /\ UNCHANGED <<mode, head, base, index, tree, changed, unseen, unread, verdict, moved, gwrites,
                   gfaults>>

\* git status in committed-range mode: every dirty path is a violation.
Status ==
    /\ gpc = "status" /\ gpc' = "read" /\ toread' = changed \ Unsafe
    /\ viol' = {[kind |-> "dirty-worktree", path |-> p] : p \in StatusNames}
                 \cup pathViolations(changed)
    /\ UNCHANGED <<mode, head, base, index, tree, changed, unseen, unread, verdict, moved, gwrites,
                   gfaults>>

\* One file is read (from HEAD, or from disk) and scanned; a deleted one is skipped, and so is a
\* directory, which exists() denies.
Scan(p) ==
    /\ gpc = "read" /\ p \in toread /\ toread' = toread \ {p}
    /\ LET text == CASE p \notin Path -> "absent"
                      [] p \in Path /\ mode = "committed-range" -> head[p]
                      [] OTHER -> tree[p]
       IN  viol' = IF text = "secret" THEN viol \cup {[kind |-> "secret", path |-> p]} ELSE viol
    /\ UNCHANGED <<mode, head, base, index, tree, gpc, changed, unseen, unread, verdict, moved,
                   gwrites, gfaults>>

\* git cat-file -e fails for another reason than a deleted file: the file is skipped unread.
Skip(p) ==
    /\ gpc = "read" /\ mode = "committed-range" /\ p \in toread
    /\ gfaults < MaxFaults /\ gfaults' = gfaults + 1
    /\ toread' = toread \ {p} /\ unread' = unread \cup {p}
    /\ UNCHANGED <<mode, head, base, index, tree, gpc, changed, unseen, viol, verdict, moved,
                   gwrites>>

Verdict ==
    /\ gpc = "read" /\ toread = {} /\ gpc' = "over"
    /\ verdict' = IF viol = {} THEN "ok" ELSE "refused"
    /\ UNCHANGED <<mode, head, base, index, tree, changed, toread, unseen, unread, viol, moved,
                   gwrites, gfaults>>

Next == Worker \/ Broken \/ Changed \/ Status \/ Verdict \/ \E p \in Name : Scan(p) \/ Skip(p)

Spec == Init /\ [][Next]_gvars

-----------------------------------------------------------------------------
(* Properties *)

TypeOK ==
    /\ mode \in {"committed-range", "working-tree"}
    /\ head \in [Path -> Content] /\ base \in [Path -> Content]
    /\ index \in [Path -> Content] /\ tree \in [Path -> Content]
    /\ gpc \in {"off", "status", "read", "over"} /\ verdict \in {"none", "ok", "refused"}
    /\ changed \subseteq Name /\ toread \subseteq changed \ Unsafe
    /\ viol \in SUBSET [kind : {"unsafe-path", "out-of-manifest", "protected-path",
                                "dirty-worktree", "secret"}, path : Name]
    /\ moved \in BOOLEAN /\ unseen \subseteq Path /\ unread \subseteq Name

\* What is about to be published: the commits of the branch, or everything in the worktree.
Published ==
    IF mode = "committed-range" THEN Differs(base, head)
    ELSE Differs(head, tree) \cup Differs(head, index)
PublishedText(p) == IF mode = "committed-range" THEN head[p] ELSE tree[p]

\* Files that the record of their directory hides from the guard.
Hidden ==
    IF mode = "committed-range" THEN {}
    ELSE {p \in Untracked : record(p) # p} \ Differs(head, index)

\* A passed guard means what dev-pm takes it for: everything that would be published is in the
\* manifest, unprotected and free of secrets, and a committed range leaves nothing dirty or staged,
\* if the worktree stood still since the guard's first command.  A file of an untracked directory
\* is judged by the name of its directory only and not read; the old name of a rename, which git
\* does not tell, a file whose look-up failed, staged text that the worktree has replaced and a
\* commit that a later one of the range takes back are outside its reach.
GuardSound ==
    verdict = "ok" /\ ~moved =>
        /\ Published \ (unseen \cup Hidden) \subseteq Manifest \ (Protected \cup Unsafe)
        /\ {Folder[p] : p \in Hidden} \subseteq Manifest \ (Protected \cup Unsafe)
        /\ \A p \in Published \ (unread \cup Hidden) : PublishedText(p) # "secret"
        /\ mode = "committed-range" => tree = head /\ index = head

=============================================================================
