----------------------------- MODULE FolderSync -----------------------------
(***************************************************************************)
(* `share <dir> --sync` to `get`, over runs that a cron job repeats: the   *)
(* sender's list, the recipient's answer, the files that differ, the prune *)
(* and the two summaries (transfer/engine.rs, commands/sync_flow.rs).      *)
(*                                                                         *)
(* Names are file paths below the shared folder.  A source is a version    *)
(* per name; a content is the sequence of versions its chunks were read    *)
(* from, and its hash is itself.  The channel (DataChannel or TCP) is      *)
(* ordered and sealed; when it is lost a suffix of each direction goes     *)
(* with it.  Both processes start with StartRun.                           *)
(***************************************************************************)
EXTENDS Integers, Sequences, FiniteSets

CONSTANTS
  Path,         \* names the folders may hold
  Part,         \* [Path -> name]: the .nullseal-part name of a file
  Above,        \* [Path -> SUBSET Path]: names that are its directories
  Rank,         \* [Path -> Nat]: byte order, the order of every list
  Versions,     \* versions of a source file are 1..Versions
  Sources,      \* sets of files the source may hold before the first run
  OldFolders,   \* destinations, [Name -> ...], before the first run
  Chunks,       \* chunks of a file
  BatchSize,    \* MANIFEST_BATCH
  MaxStale,     \* stale names that one Delete frame can hold (MAX_FRAME_BYTES)
  Absent, Folder, Nobody,
  MaxEdits,     \* bound on changes of the source folder
  MaxTroubles   \* bound on losses, deaths and faults, together

Version == 1..Versions
Content == UNION {[1..k -> Version] : k \in 0..Chunks}
Whole == [1..Chunks -> Version]
Name == Path \cup {Part[p] : p \in Path}
Suffixed == {Part[p] : p \in Path}
Copy(v) == [i \in 1..Chunks |-> v]

ASSUME FolderAssumption ==
  /\ IsFiniteSet(Path) /\ Versions \in Nat \ {0}
  /\ Chunks \in Nat \ {0} /\ BatchSize \in Nat \ {0} /\ MaxStale \in Nat
  /\ Above \in [Path -> SUBSET Path] /\ Rank \in [Path -> Nat]
  /\ \A p, q \in Path : Rank[p] = Rank[q] => p = q
  /\ \A p, q \in Path : Part[p] = Part[q] => p = q
  /\ \A p \in Path : Part[p] # p
  \* A name and its part name are neighbours: same directory, and no order
  \* puts the longer one first.
  /\ \A p \in Path : Part[p] \in Path => Above[Part[p]] = Above[p]
                                         /\ Rank[p] < Rank[Part[p]]
  /\ \A p, q \in Path : q \in Above[p] => q \notin Suffixed /\ Rank[q] < Rank[p]
  /\ Absent \notin Content \cup Version \cup {Folder} /\ Folder \notin Content
  /\ Nobody \notin Path
  /\ Sources \subseteq SUBSET Path
  /\ \A files \in Sources : \A p \in files : Above[p] \cap files = {}
  /\ OldFolders \subseteq [Name -> {Absent, Folder} \cup Whole]
  /\ \A old \in OldFolders : \A p \in Path :
       old[p] # Absent => \A q \in Above[p] : old[q] = Folder
  /\ MaxEdits \in Nat /\ MaxTroubles \in Nat

VARIABLES
  src,                                          \* the shared folder
  manifest, sst, gotHello, gotAck, acks,        \* sender: lists
  plan, stale, opened, sent, retried,           \* sender: files
  sWritten, sDeleted,                           \* sender: summary
  dest,                                         \* the destination folder
  rst, local, declared, acked, current, got,    \* recipient
  rWritten, rDeleted,                           \* recipient: summary
  toR, toS, up,                                 \* the channel
  consent,          \* SyncOptions: "never", "careful" or "always"
  before, travelled, arrived, undeleted,        \* history of the run
  edited, steady,                               \* history of the runs
  edits, troubles                               \* counters of the bounds

listVars == <<manifest, gotHello, gotAck, acks>>
fileVars == <<plan, stale, opened, sent, retried>>
sumVars == <<sWritten, sDeleted>>
senderVars == <<sst, listVars, fileVars, sumVars>>
partVars == <<current, got>>
tallyVars == <<rWritten, rDeleted>>
recipientVars == <<dest, rst, local, declared, acked, partVars, tallyVars>>
runVars == <<before, undeleted>>
cronVars == <<consent, edited, steady, edits>>
vars == <<src, senderVars, recipientVars, toR, toS, up, runVars, travelled,
          arrived, cronVars, troubles>>

Over == {"done", "failed"}
SenderRuns == sst \notin Over
RecipientRuns == rst \notin Over

IsFile(x) == x # Absent /\ x # Folder
Files(tree, names) == {p \in names : IsFile(tree[p])}
Consistent(tree) == \A p \in Path : tree[p] # Absent =>
                                      \A q \in Above[p] : ~IsFile(tree[q])
First(paths) == CHOOSE p \in paths : \A q \in paths : Rank[p] <= Rank[q]

\* The environment strikes: a lost channel, a killed process, an error of the
\* file system.
Trouble == troubles < MaxTroubles /\ troubles' = troubles + 1

Post(queue, frames) == IF up THEN queue \o frames ELSE queue

-----------------------------------------------------------------------------
(* engine.rs: the pure decisions.                                          *)

Position(p, paths) == Cardinality({q \in paths : Rank[q] <= Rank[p]})

\* manifest_batches() and ack_batches(): at least one frame, `more` on all but
\* the last.
NoBatchWhenEmpty(kind, list) ==
  LET names == DOMAIN list
      n == (Cardinality(names) + BatchSize - 1) \div BatchSize
      batch(i) == {p \in names : (Position(p, names) - 1) \div BatchSize = i - 1}
  IN  [i \in 1..n |-> [t |-> kind, more |-> i < n,
                       files |-> [p \in batch(i) |-> list[p]]]]
Batches(kind, list) ==
  IF DOMAIN list = {} THEN <<[t |-> kind, more |-> FALSE, files |-> list]>>
  ELSE NoBatchWhenEmpty(kind, list)

\* on_manifest_ack(): what is equal is skipped.
DiffersByName(p, theirs) == p \notin DOMAIN theirs
Differs(p, theirs) == p \notin DOMAIN theirs \/ theirs[p] # manifest[p]

\* delete_decision()
PruneWheneverAsked == consent # "never"
MayPrune ==
  consent # "never" /\ ~(declared = {} /\ DOMAIN local # {} /\ consent # "always")

Merge(f, g) == [p \in DOMAIN f \cup DOMAIN g |-> IF p \in DOMAIN g THEN g[p] ELSE f[p]]

-----------------------------------------------------------------------------
Init ==
  /\ \E files \in Sources : src = [p \in Path |-> IF p \in files THEN 1 ELSE Absent]
  /\ dest \in OldFolders
  /\ manifest = <<>> /\ sst = "failed" /\ gotHello = FALSE /\ gotAck = FALSE
  /\ acks = <<>> /\ plan = {} /\ stale = {} /\ opened = Nobody /\ sent = <<>>
  /\ retried = {} /\ sWritten = 0 /\ sDeleted = 0
  /\ rst = "failed" /\ local = <<>> /\ declared = {} /\ acked = FALSE
  /\ current = Nobody /\ got = <<>> /\ rWritten = 0 /\ rDeleted = 0
  /\ toR = <<>> /\ toS = <<>> /\ up = FALSE
  /\ consent \in {"never", "careful", "always"}
  /\ before = dest /\ travelled = <<>> /\ arrived = {} /\ undeleted = {}
  /\ edited = TRUE /\ steady = FALSE
  /\ edits = 0 /\ troubles = 0

\* A new pair of processes: `share` walks and hashes the folder, `get` has
\* found it and their channel is open.
StartRun ==
  /\ ~SenderRuns /\ ~RecipientRuns
  /\ manifest' = [p \in {q \in Path : src[q] # Absent} |-> Copy(src[p])]
  /\ sst' = "start" /\ gotHello' = FALSE /\ gotAck' = FALSE /\ acks' = <<>>
  /\ plan' = {} /\ stale' = {} /\ opened' = Nobody /\ sent' = <<>>
  /\ retried' = {} /\ sWritten' = 0 /\ sDeleted' = 0
  /\ rst' = "hello" /\ local' = <<>> /\ declared' = {} /\ acked' = FALSE
  /\ current' = Nobody /\ got' = <<>> /\ rWritten' = 0 /\ rDeleted' = 0
  /\ toR' = <<>> /\ toS' = <<>> /\ up' = TRUE
  /\ before' = dest /\ travelled' = <<>> /\ arrived' = {} /\ undeleted' = {}
  /\ steady' = (rst = "done" /\ undeleted = {} /\ ~edited) /\ edited' = FALSE
  /\ UNCHANGED <<src, dest, consent, edits, troubles>>

-----------------------------------------------------------------------------
(* run_sender(), send_one_file()                                           *)

AlwaysOpen(left) == "open"
NextFile(left) == IF left = {} THEN "finish" ELSE "open"

\* The hello and the whole list go out before anything is read.
SenderGreets ==
  /\ sst = "start" /\ sst' = "compare"
  /\ toR' = Post(toR, <<[t |-> "hello"]>> \o Batches("manifest", manifest))
  /\ UNCHANGED <<src, listVars, fileVars, sumVars, recipientVars, toS, up,
                 runVars, travelled, arrived, cronVars, troubles>>

SenderReads(state, kind) ==
  /\ sst = state /\ toS # <<>> /\ Head(toS).t = kind
  /\ toS' = Tail(toS)

\* The last of hello and list: the diff.
Compare ==
  IF gotHello' /\ gotAck'
  THEN /\ plan' = {p \in DOMAIN manifest : Differs(p, acks')}
       /\ stale' = DOMAIN acks' \ DOMAIN manifest
       /\ travelled' = [p \in DOMAIN manifest \ plan' |-> manifest[p]]
       /\ sst' = NextFile(plan')
  ELSE UNCHANGED <<plan, stale, travelled, sst>>

SenderHearsHello ==
  /\ SenderReads("compare", "hello")
  /\ gotHello' = TRUE /\ UNCHANGED <<acks, gotAck>> /\ Compare
  /\ UNCHANGED <<src, manifest, opened, sent, retried, sumVars, recipientVars,
                 toR, up, runVars, arrived, cronVars, troubles>>

KeepLastBatch(frame) == frame.files
Collect(frame) == Merge(acks, frame.files)

SenderHearsList ==
  /\ SenderReads("compare", "ack")
  /\ acks' = Collect(Head(toS)) /\ gotAck' = ~Head(toS).more
  /\ UNCHANGED gotHello /\ Compare
  /\ UNCHANGED <<src, manifest, opened, sent, retried, sumVars, recipientVars,
                 toR, up, runVars, arrived, cronVars, troubles>>

SenderOpens ==
  /\ sst = "open"
  /\ LET p == First(plan)
     IN  IF src[p] = Absent
         THEN sst' = "failed" /\ UNCHANGED <<opened, sent, toR>>
         ELSE /\ sst' = "stream" /\ opened' = src[p] /\ sent' = <<>>
              /\ toR' = Post(toR, <<[t |-> "begin", path |-> p]>>)
  /\ UNCHANGED <<src, listVars, plan, stale, retried, sumVars, recipientVars,
                 toS, up, runVars, travelled, arrived, cronVars, troubles>>

\* The open file may be rewritten in place between two reads.
SenderSendsChunk ==
  /\ sst = "stream" /\ Len(sent) < Chunks
  /\ \E v \in {opened, src[First(plan)]} \ {Absent} :
       /\ sent' = Append(sent, v)
       /\ toR' = Post(toR, <<[t |-> "chunk", v |-> v]>>)
  /\ UNCHANGED <<src, sst, listVars, plan, stale, opened, retried, sumVars,
                 recipientVars, toS, up, runVars, travelled, arrived, cronVars,
                 troubles>>

\* The end of the file: all of it, or less when a rewrite has truncated it
\* meanwhile.
SenderEndsFile ==
  /\ sst = "stream" /\ sst' = "verify"
  /\ Len(sent) = Chunks \/ src[First(plan)] \notin {opened, Absent}
  /\ toR' = Post(toR, <<[t |-> "end", hash |-> sent]>>)
  /\ travelled' = Merge(travelled, [p \in {First(plan)} |-> sent])
  /\ UNCHANGED <<src, listVars, fileVars, sumVars, recipientVars, toS, up,
                 runVars, arrived, cronVars, troubles>>

SenderHearsOk ==
  /\ SenderReads("verify", "ok")
  /\ plan' = plan \ {First(plan)} /\ sWritten' = sWritten + 1
  /\ sst' = NextFile(plan')
  /\ UNCHANGED <<src, listVars, stale, opened, sent, retried, sDeleted,
                 recipientVars, toR, up, runVars, travelled, arrived, cronVars,
                 troubles>>

\* on_file_fail(): one retry per file, then an abort.
SenderHearsFail ==
  /\ SenderReads("verify", "fail")
  /\ LET p == Head(toS).path
     IN  IF p \in retried
         THEN /\ sst' = "failed" /\ toR' = Post(toR, <<[t |-> "abort"]>>)
              /\ UNCHANGED retried
         ELSE sst' = "open" /\ retried' = retried \cup {p} /\ UNCHANGED toR
  /\ UNCHANGED <<src, listVars, plan, stale, opened, sent, sumVars,
                 recipientVars, up, runVars, travelled, arrived, cronVars,
                 troubles>>

\* encode_frame(): unlike the lists the Delete frame is not cut into batches.
Encodes(paths) == Cardinality(paths) <= MaxStale

SenderLeavesAtOnce ==
  /\ sst = "finish" /\ Encodes(stale) /\ sst' = "done"
  /\ toR' = Post(toR, (IF stale = {} THEN <<>>
                       ELSE <<[t |-> "delete", paths |-> stale]>>)
                      \o <<[t |-> "done"]>>)
  /\ UNCHANGED <<src, listVars, fileVars, sumVars, recipientVars, toS, up,
                 runVars, travelled, arrived, cronVars, troubles>>
SenderFinishes ==
  /\ sst = "finish" /\ Encodes(stale) /\ sst' = "summary"
  /\ toR' = Post(toR, (IF stale = {} THEN <<>>
                       ELSE <<[t |-> "delete", paths |-> stale]>>)
                      \o <<[t |-> "done"]>>)
  /\ UNCHANGED <<src, listVars, fileVars, sumVars, recipientVars, toS, up,
                 runVars, travelled, arrived, cronVars, troubles>>

\* FrameTooLarge: `?` ends the run, and nobody is told.
SenderCannotFinish ==
  /\ sst = "finish" /\ ~Encodes(stale) /\ sst' = "failed"
  /\ UNCHANGED <<src, listVars, fileVars, sumVars, recipientVars, toR, toS, up,
                 runVars, travelled, arrived, cronVars, troubles>>

SenderHearsDone ==
  /\ SenderReads("summary", "done")
  /\ sst' = "done" /\ sDeleted' = Head(toS).deleted
  /\ UNCHANGED <<src, listVars, fileVars, sWritten, recipientVars, toR, up,
                 runVars, travelled, arrived, cronVars, troubles>>

\* An Abort frame or the channel gone: `?` ends the run.
SenderEndsInError ==
  /\ SenderRuns /\ sst' = "failed"
  /\ \/ toS # <<>> /\ Head(toS).t = "abort" /\ sst \in {"compare", "verify", "summary"}
     \/ ~up
     \/ toS = <<>> /\ ~RecipientRuns
  /\ UNCHANGED <<src, listVars, fileVars, sumVars, recipientVars, toR, toS, up,
                 runVars, travelled, arrived, cronVars, troubles>>

-----------------------------------------------------------------------------
(* run_receiver(), commit_part(), prune()                                  *)

WriteInPlace(p) == p
PartName(p) == Part[p]

Put(tree, n, x) == [tree EXCEPT ![n] = x]
Rename(tree, from, to) ==
  [n \in Name |-> IF n = to THEN tree[from]
                  ELSE IF n = from THEN Absent ELSE tree[n]]

\* On every exit of run_receiver a part file still open is removed.
CleanUp ==
  dest' = IF current = Nobody THEN dest ELSE Put(dest, PartName(current), Absent)

RecipientGivesUp ==
  /\ rst' = "failed" /\ CleanUp /\ current' = Nobody
  /\ UNCHANGED <<local, declared, acked, got, tallyVars>>

RecipientReads(state, kind) ==
  /\ rst = state /\ toR # <<>> /\ Head(toR).t = kind
  /\ toR' = Tail(toR)

\* resolve_sync_root(), discard_stale_parts(), scan_dest()
RecipientScans ==
  /\ RecipientReads("hello", "hello") /\ rst' = "loop"
  /\ dest' = [n \in Name |-> IF n \in Suffixed THEN Absent ELSE dest[n]]
  /\ local' = [p \in Files(dest', Path) |-> dest'[p]]
  /\ toS' = Post(toS, <<[t |-> "hello"]>>)
  /\ UNCHANGED <<src, senderVars, declared, acked, partVars, tallyVars, up,
                 runVars, travelled, arrived, cronVars, troubles>>

RecipientRefuses ==
  /\ RecipientReads("hello", "hello") /\ Trouble /\ RecipientGivesUp
  /\ toS' = Post(toS, <<[t |-> "abort"]>>)
  /\ UNCHANGED <<src, senderVars, up, runVars, travelled, arrived, cronVars>>

RecipientHearsList ==
  /\ RecipientReads("loop", "manifest")
  /\ declared' = declared \cup DOMAIN Head(toR).files
  /\ acked' = (acked \/ ~Head(toR).more)
  /\ toS' = IF acked' /\ ~acked THEN Post(toS, Batches("ack", local)) ELSE toS
  /\ UNCHANGED <<src, senderVars, dest, rst, local, partVars, tallyVars, up,
                 runVars, travelled, arrived, cronVars, troubles>>

RecipientBegins ==
  /\ RecipientReads("loop", "begin")
  /\ LET p == Head(toR).path
     IN  IF \E q \in Above[p] : IsFile(dest[q])
         THEN RecipientGivesUp
         ELSE /\ dest' = [n \in Name |-> IF n = PartName(p) THEN <<>>
                                         ELSE IF n \in Above[p] THEN Folder
                                         ELSE dest[n]]
              /\ current' = p /\ got' = <<>>
              /\ UNCHANGED <<rst, local, declared, acked, tallyVars>>
  /\ UNCHANGED <<src, senderVars, toS, up, runVars, travelled, arrived,
                 cronVars, troubles>>

RecipientWrites ==
  /\ RecipientReads("loop", "chunk")
  /\ dest' = Put(dest, PartName(current), Append(dest[PartName(current)], Head(toR).v))
  /\ got' = Append(got, Head(toR).v)
  /\ UNCHANGED <<src, senderVars, rst, local, declared, acked, current,
                 tallyVars, toS, up, runVars, travelled, arrived, cronVars,
                 troubles>>

\* The hash verified and the rename done.
RecipientCommits ==
  /\ RecipientReads("loop", "end")
  /\ got = Head(toR).hash /\ dest[current] # Folder
  /\ dest' = Rename(dest, PartName(current), current)
  /\ arrived' = arrived \cup {current} /\ rWritten' = rWritten + 1
  /\ toS' = Post(toS, <<[t |-> "ok", path |-> current]>>)
  /\ current' = Nobody
  /\ UNCHANGED <<src, senderVars, rst, local, declared, acked, got, rDeleted,
                 up, runVars, travelled, cronVars, troubles>>

\* A bad hash, a flush or a rename that fails: the part file goes.
RecipientRejects ==
  /\ RecipientReads("loop", "end")
  /\ \/ (got # Head(toR).hash \/ dest[current] = Folder) /\ UNCHANGED troubles
     \/ Trouble
  /\ CleanUp
  /\ toS' = Post(toS, <<[t |-> "fail", path |-> current]>>)
  /\ current' = Nobody
  /\ UNCHANGED <<src, senderVars, rst, local, declared, acked, got, tallyVars,
                 up, runVars, travelled, arrived, cronVars>>

\* A file that cannot be deleted is a warning only.
RecipientPrunes ==
  /\ RecipientReads("loop", "delete")
  /\ LET asked == IF MayPrune THEN Head(toR).paths ELSE {}
     IN  \E kept \in SUBSET asked :
           /\ IF kept = {} THEN UNCHANGED troubles ELSE Trouble
           /\ dest' = [n \in Name |-> IF n \in asked \ kept THEN Absent ELSE dest[n]]
           /\ rDeleted' = Cardinality({p \in asked \ kept : IsFile(dest[p])})
           /\ undeleted' = kept
  /\ UNCHANGED <<src, senderVars, rst, local, declared, acked, partVars,
                 rWritten, toS, up, before, travelled, arrived, cronVars>>

RecipientHearsDone ==
  /\ RecipientReads("loop", "done") /\ rst' = "done"
  /\ toS' = Post(toS, <<[t |-> "done", deleted |-> rDeleted]>>)
  /\ UNCHANGED <<src, senderVars, dest, local, declared, acked, partVars,
                 tallyVars, up, runVars, travelled, arrived, cronVars,
                 troubles>>

\* An Abort frame or the channel gone.
RecipientEndsInError ==
  /\ RecipientRuns /\ RecipientGivesUp
  /\ \/ toR # <<>> /\ Head(toR).t = "abort"
     \/ ~up
     \/ toR = <<>> /\ ~SenderRuns
  /\ UNCHANGED <<src, senderVars, toR, toS, up, runVars, travelled, arrived,
                 cronVars, troubles>>

\* `?` on a file that cannot be created, written or scanned.
RecipientFaults ==
  /\ RecipientRuns /\ Trouble /\ RecipientGivesUp
  /\ UNCHANGED <<src, senderVars, toR, toS, up, runVars, travelled, arrived,
                 cronVars>>

SenderFaults ==
  /\ sst \in {"open", "stream"} /\ Trouble /\ sst' = "failed"
  /\ UNCHANGED <<src, listVars, fileVars, sumVars, recipientVars, toR, toS, up,
                 runVars, travelled, arrived, cronVars>>

-----------------------------------------------------------------------------
(* The environment.                                                        *)

\* The source folder changes under the run, in place or by replacement: a
\* file goes, or has its newest version.
SourceChanges ==
  /\ edits < MaxEdits /\ edits' = edits + 1 /\ edited' = TRUE
  /\ \E p \in Path, x \in {Absent, Versions} :
       src' = [src EXCEPT ![p] = x] /\ src' # src
  /\ Consistent(src')
  /\ UNCHANGED <<senderVars, recipientVars, toR, toS, up, runVars, travelled,
                 arrived, consent, steady, troubles>>

Prefixes(queue) == {SubSeq(queue, 1, k) : k \in 0..Len(queue)}

ChannelLost ==
  /\ up /\ Trouble
  /\ SenderRuns \/ RecipientRuns
  /\ up' = FALSE /\ toR' \in Prefixes(toR) /\ toS' \in Prefixes(toS)
  /\ UNCHANGED <<src, senderVars, recipientVars, runVars, travelled, arrived,
                 cronVars>>

\* A process is killed: nothing is cleaned up.
SenderDies ==
  /\ SenderRuns /\ Trouble
  /\ sst' = "failed"
  /\ UNCHANGED <<src, listVars, fileVars, sumVars, recipientVars, toR, toS, up,
                 runVars, travelled, arrived, cronVars>>

RecipientDies ==
  /\ RecipientRuns /\ Trouble
  /\ rst' = "failed" /\ current' = Nobody
  /\ UNCHANGED <<src, senderVars, dest, local, declared, acked, got, tallyVars,
                 toR, toS, up, runVars, travelled, arrived, cronVars>>

SenderStep ==
  \/ SenderGreets \/ SenderHearsHello \/ SenderHearsList \/ SenderOpens
  \/ SenderSendsChunk \/ SenderEndsFile \/ SenderHearsOk \/ SenderHearsFail
  \/ SenderFinishes \/ SenderCannotFinish \/ SenderHearsDone
  \/ SenderEndsInError \/ SenderFaults

RecipientStep ==
  \/ RecipientScans \/ RecipientRefuses \/ RecipientHearsList
  \/ RecipientBegins \/ RecipientWrites \/ RecipientCommits \/ RecipientRejects
  \/ RecipientPrunes \/ RecipientHearsDone \/ RecipientEndsInError
  \/ RecipientFaults

Next ==
  \/ StartRun \/ SenderStep \/ RecipientStep
  \/ SourceChanges \/ ChannelLost \/ SenderDies \/ RecipientDies

Spec == Init /\ [][Next]_vars

\* Both processes run, a lost channel is reported (ICE, or a closed socket),
\* and the cron job comes again.
FairSpec == Spec /\ WF_vars(SenderStep) /\ WF_vars(RecipientStep) /\ WF_vars(StartRun)

-----------------------------------------------------------------------------
\* The user's guide of --sync and --replace-delete: when `get` reports success
\* every file of the sender's list holds what was compared equal or what
\* travelled last, all of it; and every other file is deleted if the user asked
\* for it and it could be deleted, and is as it was otherwise.  (Names with
\* the part suffix are discarded on every run.)
DoneMeansMirrored ==
  rst = "done" =>
    /\ declared = DOMAIN manifest
    /\ \A p \in declared : dest[p] = travelled[p]
    /\ \A p \in Path \ (declared \cup Suffixed) : IsFile(before[p]) =>
         dest[p] = IF (consent = "always" \/ (consent = "careful" /\ declared # {}))
                      /\ p \notin undeleted
                   THEN Absent ELSE before[p]

\* When `share` reports success so did `get`, and the summaries both print
\* agree on what was written and deleted.
SendersSuccessIsShared ==
  sst = "done" => rst = "done" /\ sWritten = rWritten /\ sDeleted = rDeleted

\* "Re-running resumes, and the hash diff makes the repeat near-free": after a
\* successful run and with no edit since its scan, nothing travels again
\* (except files whose own name has the part suffix).
RepeatSendsNothing == steady => plan \subseteq Suffixed

\* The destination as its user sees it, and what a run promises about it.
Seen == Path \ Suffixed
Mirror == INSTANCE FolderMirror WITH
  File <- Seen, Missing <- Absent,
  mirror <- [p \in Seen |-> IF IsFile(dest[p]) THEN dest[p] ELSE Absent],
  offer <- [p \in Seen |-> IF p \in DOMAIN manifest THEN manifest[p] ELSE Absent],
  read <- [p \in Seen |-> IF p \in DOMAIN travelled THEN travelled[p] ELSE Absent],
  arrived <- arrived \cap Seen,
  hollow <- (DOMAIN manifest = {}),
  verdict <- CASE rst = "done" -> "success" [] rst = "failed" -> "failure"
               [] OTHER -> "open"

\* Whatever is lost, killed or edited, the destination only ever changes the
\* way FolderMirror allows: files exactly as they were read, no deletion without
\* consent or before everything offered is in place, success only for a mirror.
MirrorPromise == Mirror!Spec

\* Nobody waits for ever: every run comes to an end on both sides.
RunEnds == (sst = "start") ~> (~SenderRuns /\ ~RecipientRuns)

\* The destination has a folder where the source has a file, or a file where
\* the source has a folder.
Obstructed ==
  \E p \in Path : src[p] # Absent /\ (\/ dest[p] = Folder
                                      \/ \E q \in Above[p] : IsFile(dest[q]))

\* The destination has more stale files than a Delete frame can name: every run
\* fails at its end, asked to prune or not.
TooStale == Cardinality({p \in Files(dest, Seen) : src[p] = Absent}) > MaxStale

\* When the environment leaves it alone the cron job succeeds again and again.
SyncConverges == []<>(rst = "done" \/ Obstructed \/ TooStale)
=============================================================================
