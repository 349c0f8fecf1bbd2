---------------------------------- MODULE Patches ----------------------------------
(***************************************************************************)
(* apply_patch: apply-patch.ts.  The actions of a patch are applied in     *)
(* order to a staged copy; only when all of them succeed are the staged    *)
(* files written, and then the deleted ones removed.  Each write goes      *)
(* through a temporary file; on Windows the old file is set aside first.   *)
(*                                                                         *)
(* A text is what splitFile() makes of it: its lines, whether the last one *)
(* is closed, and what ends them; an empty file is one empty line.  On     *)
(* Windows and macOS names that differ in case only are one file.  The     *)
(* order of writes is left open.  One patch runs alone: nothing in the     *)
(* code keeps another out.                                                 *)
(***************************************************************************)
EXTENDS Naturals, Sequences, TLC

LOCAL INSTANCE SequencesExt

CONSTANTS Names, Lower(_),           \* file names, and what a case-insensitive file system makes of them
          Texts,                     \* texts that files begin with
          TrimmedEnd(_), Trimmed(_), \* a line without the blanks after it, without outer blanks
          Hunks,               \* the hunks of updates: a line they come after, old and new lines,
                               \* and whether they end the file
          None,
          MaxActions           \* bound

VARIABLES
    platform,
    disk,       \* per file: its text, or None
    aside,      \* on Windows: the file set aside, and its text
    before, should,     \* the files before the patch; what the actions make of them one after the other
    staged,     \* per name touched: its text, or None for one that is deleted
    actions,    \* how many actions were taken, and the names in them
    write,      \* the write in progress
    step

vars == <<platform, disk, aside, before, should, staged, actions, write, step>>

Key(f) == IF platform = "linux" THEN f ELSE Lower(f)
Files == {Key(f) : f \in Names}
NoWrite == [at |-> "none"]

Init ==
    /\ platform \in {"linux", "darwin", "win32"}
    /\ disk \in [Files -> Texts \union {None}] /\ before = disk /\ should = disk
    /\ aside = None /\ staged = <<>> /\ actions = [count |-> 0, names |-> {}] /\ write = NoWrite /\ step = "stage"

(***************************************************************************)
(* findSequence() and applyHunks().  A hunk is looked for after the one    *)
(* before: literally, then without the blanks after its lines, then        *)
(* without those around them.                                              *)
(***************************************************************************)
Normal(pass, line) == CASE pass = 1 -> line [] pass = 2 -> TrimmedEnd(line) [] pass = 3 -> Trimmed(line)
Occurs(pass, lines, old, at) ==
    \A i \in DOMAIN old : Normal(pass, lines[at + i - 1]) = Normal(pass, old[i])

FindSequence(lines, old, from, eof) ==
    LET last == Len(lines) - Len(old) + 1
        found == {m \in (1..3) \X (from..last) : (eof => m[2] = last) /\ Occurs(m[1], lines, old, m[2])}
        First(m) == \A o \in found : m[1] < o[1] \/ (m[1] = o[1] /\ m[2] <= o[2]) IN
    IF old = <<>> THEN (IF eof THEN last ELSE from)
    ELSE IF found = {} THEN 0 ELSE (CHOOSE m \in found : First(m))[2]

FromTop(r) == 1  \* mutant: each hunk is looked for from the top
Cursor(r) == r.cursor

Refused(r) == [r EXCEPT !.ok = FALSE]
Puts(r, h, at) ==
    IF at = 0 THEN Refused(r)
    ELSE [ok |-> TRUE, cursor |-> at + Len(h.new),
          lines |-> SubSeq(r.lines, 1, at - 1) \o h.new \o SubSeq(r.lines, at + Len(h.old), Len(r.lines))]
ApplyHunk(r, h) ==
    LET context == FindSequence(r.lines, <<h.context>>, Cursor(r), FALSE) IN
    IF ~r.ok \/ (h.context # None /\ context = 0) THEN Refused(r)
    ELSE Puts(r, h, FindSequence(r.lines, h.old, IF h.context = None THEN Cursor(r) ELSE context + 1, h.eof))

\* The result always ends with a line end, even if nothing is left of it, and
\* has one kind of them.
ApplyHunks(text, hunks) ==
    LET r == FoldLeft(ApplyHunk, [ok |-> TRUE, cursor |-> 1, lines |-> text.lines], hunks) IN
    [ok |-> r.ok, text |-> [lines |-> IF r.lines = <<>> THEN <<"">> ELSE r.lines, closed |-> TRUE,
                            eol |-> IF text.eol = "lf" THEN "lf" ELSE "crlf"]]

(***************************************************************************)
(* parsePatch() yields at least one action; an update has hunks or moves.  *)
(***************************************************************************)
HunkLists == {<<>>} \union {<<h>> : h \in Hunks} \union {<<h, k>> : h, k \in Hunks}
PatchActions ==
    [kind : {"add"}, path : Names, content : {t \in Texts : t.closed /\ t.eol = "lf"}] \union [kind : {"delete"}, path : Names]
    \union [kind : {"update"}, path : Names, moveTo : {None}, hunks : HunkLists \ {<<>>}]
    \union [kind : {"update"}, path : Names, moveTo : Names, hunks : HunkLists]

Staged(f) == IF f \in DOMAIN staged THEN staged[f] ELSE disk[Key(f)]
Sets(f, text) == (f :> text) @@ staged
SamePath(f, g) == f = g  \* mutant: names in another case are other files
IsSamePatchFile(f, g) == f = g \/ (Lower(f) = Lower(g) /\ Key(f) = Key(g) /\ disk[Key(f)] # None)

Refuse == step' = "refused" /\ UNCHANGED <<staged, should>>

Add(a) ==
    /\ a.kind = "add" /\ staged' = Sets(a.path, a.content)
    /\ should' = [should EXCEPT ![Key(a.path)] = a.content] /\ UNCHANGED step

Delete(a) ==
    /\ a.kind = "delete"
    /\ IF Staged(a.path) = None THEN Refuse
       ELSE staged' = Sets(a.path, None) /\ should' = [should EXCEPT ![Key(a.path)] = None] /\ UNCHANGED step

Update(a) ==
    LET text == Staged(a.path)   new == ApplyHunks(text, a.hunks)
        to == IF a.moveTo = None THEN a.path ELSE a.moveTo   same == IsSamePatchFile(a.path, to)
        left == IF same THEN [f \in DOMAIN staged \ {a.path} |-> staged[f]] ELSE Sets(a.path, None) IN
    /\ a.kind = "update"
    /\ IF text = None THEN Refuse ELSE IF ~new.ok THEN Refuse
       ELSE /\ staged' = (to :> new.text) @@ left /\ UNCHANGED step
            /\ should' = [should EXCEPT ![Key(a.path)] = None, ![Key(to)] = new.text]

Stage ==
    /\ step = "stage" /\ actions.count < MaxActions
    /\ \E a \in PatchActions :
         /\ Add(a) \/ Delete(a) \/ Update(a) \/ Refuse  \* (a path outside, a file that is no text)
         /\ actions' = [count |-> actions.count + 1,
                        names |-> actions.names \union ({a.path, IF a.kind = "update" THEN a.moveTo ELSE None} \ {None})]
    /\ UNCHANGED <<platform, disk, aside, before, write>>

(***************************************************************************)
(* The commit: writeTextFile() and replaceFile(), then rm().               *)
(***************************************************************************)
Kept == {f \in DOMAIN staged : staged[f] # None}

Commit ==
    /\ step = "stage" /\ actions.count > 0 /\ step' = "write"
    /\ write' = [at |-> "next", todo |-> Kept]
    /\ UNCHANGED <<platform, disk, aside, before, should, staged, actions>>

SetAside(f) ==
    /\ step = "write" /\ write.at = "next" /\ f \in write.todo
    /\ platform = "win32" /\ disk[Key(f)] # None
    /\ aside' = [file |-> Key(f), text |-> disk[Key(f)]] /\ disk' = [disk EXCEPT ![Key(f)] = None]
    /\ write' = [write EXCEPT !.at = f]
    /\ UNCHANGED <<platform, before, should, staged, actions, step>>

Replace(f) ==
    /\ step = "write" /\ f \in write.todo
    /\ \/ write.at = f
       \/ write.at = "next" /\ (platform # "win32" \/ disk[Key(f)] = None)
    /\ disk' = [disk EXCEPT ![Key(f)] = staged[f]]
    /\ write' = [at |-> IF write.at = f THEN "backup" ELSE "next", todo |-> write.todo \ {f}]
    /\ UNCHANGED <<platform, aside, before, should, staged, actions, step>>

RemoveBackup ==
    /\ step = "write" /\ write.at = "backup"
    /\ aside' = None /\ write' = [write EXCEPT !.at = "next"]
    /\ UNCHANGED <<platform, disk, before, should, staged, actions, step>>

Unlink(f) ==
    /\ step = "write" /\ write.at = "next" /\ write.todo = {} /\ f \in DOMAIN staged \ Kept
    /\ staged' = [g \in DOMAIN staged \ {f} |-> staged[g]]
    /\ disk' = [disk EXCEPT ![Key(f)] = None]
    /\ UNCHANGED <<platform, aside, before, should, actions, write, step>>

\* An error: what was written or removed stays so.  A file that was set aside
\* is put back if it was not replaced and the renaming back does not fail too.
PutsBack == write.at \in Names /\ disk' = [disk EXCEPT ![aside.file] = aside.text] /\ aside' = None
WriteFails ==
    /\ step = "write" /\ (write.at = "backup" \/ write.todo # {} \/ DOMAIN staged # Kept)
    /\ PutsBack \/ UNCHANGED <<disk, aside>>
    /\ step' = "failed" /\ write' = NoWrite
    /\ UNCHANGED <<platform, before, should, staged, actions>>

Done ==
    /\ step = "write" /\ write.at = "next" /\ write.todo = {} /\ DOMAIN staged = Kept
    /\ step' = "done" /\ write' = NoWrite
    /\ UNCHANGED <<platform, disk, aside, before, should, staged, actions>>

Crash ==
    /\ step = "write" /\ step' = "crashed" /\ write' = NoWrite
    /\ UNCHANGED <<platform, disk, aside, before, should, staged, actions>>

Next ==
    \/ Stage \/ Commit \/ RemoveBackup \/ WriteFails \/ Done \/ Crash
    \/ \E f \in Names : SetAside(f) \/ Replace(f) \/ Unlink(f)

Spec == Init /\ [][Next]_vars

-------------------------------------------------------------------------------
\* Several actions name a file by two spellings.
TwoSpellings == actions.count > 1 /\ \E f, g \in actions.names : f # g /\ Key(f) = Key(g)

\* A patch that succeeds has the effect of its actions one after the other.
\* (Not so if it names one file by two spellings: staged apart, a file that is
\* deleted by one and added by the other is removed.)
EffectIsSequential == step = "done" /\ ~TwoSpellings => disk = should

\* A patch that is refused changes nothing.  One that fails or crashes leaves
\* each file as it was or as it should be, or set aside as it was; and it removed
\* no file unless all the others are as they should be.
NothingIsTorn ==
    /\ step \in {"stage", "refused"} => disk = before
    /\ step \in {"failed", "crashed"} /\ ~TwoSpellings =>
         LET SetAsideNow(k) == aside # None /\ aside = [file |-> k, text |-> before[k]]
             Removed(k) == before[k] # None /\ disk[k] = None /\ ~SetAsideNow(k) IN
         /\ \A k \in Files : disk[k] \in {before[k], should[k]} \/ (disk[k] = None /\ SetAsideNow(k))
         /\ (\E k \in Files : Removed(k)) => \A k \in Files : should[k] # None => disk[k] = should[k]
    /\ step = "done" => aside = None

\* What the hunks make of a text is that text with the old lines of each, up to
\* blanks, at places one after the other, replaced by the new ones; the lines
\* left, or an empty one, are all closed, and by what closed all of them before.
HunksKeepTheRest ==
    \A text \in Texts, h, k \in Hunks :
        LET new == ApplyHunks(text, <<h, k>>)   lines == text.lines
            SameLines(s, t) == Len(s) = Len(t) /\ \A i \in DOMAIN s : Trimmed(s[i]) = Trimmed(t[i]) IN
        new.ok =>
          /\ new.text.closed /\ (text.eol # "mixed" => new.text.eol = text.eol)
          /\ \E i, j \in 1..(Len(lines) + 1) :
               /\ i + Len(h.old) <= j /\ j + Len(k.old) <= Len(lines) + 1
               /\ SameLines(SubSeq(lines, i, i + Len(h.old) - 1), h.old)
               /\ SameLines(SubSeq(lines, j, j + Len(k.old) - 1), k.old)
               /\ LET left == SubSeq(lines, 1, i - 1) \o h.new \o SubSeq(lines, i + Len(h.old), j - 1)
                             \o k.new \o SubSeq(lines, j + Len(k.old), Len(lines)) IN
                  new.text.lines = IF left = <<>> THEN <<"">> ELSE left

\* A patch has the effect of its actions and hunks, or none, or that of some
\* files when it fails half-way.  (Nothing about hunks depends on the state: it
\* is looked at where no action was taken yet.)
PatchesAreWhole ==
    /\ EffectIsSequential /\ NothingIsTorn
    /\ actions.count = 0 => HunksKeepTheRest
===============================================================================
