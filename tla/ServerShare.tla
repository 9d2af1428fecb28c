---------------------------- MODULE ServerShare ----------------------------
(***************************************************************************)
(* A server share from the command line to the disk: `share` and `manage`  *)
(* on the owner's side, `get` on the recipients', who run in one directory *)
(* (src/commands/{share,manage,get,mod}.rs, src/{api,archive}.rs).  The    *)
(* server is external: it keeps one share, checks the answer against the   *)
(* challenge it handed out, and consumes a one-time share on delivery.     *)
(***************************************************************************)
EXTENDS CommandLine, Sequences, SequencesExt, FiniteSetsExt

CONSTANTS
  Getters,    \* runs of `get`
  MaxManage   \* bound: runs of `manage`

VARIABLES
  share,   \* the server's record
  owner,   \* the owner's command
  get,     \* per getter: its run of `get`
  disk     \* the directory the getters save into

storeVars == <<share, owner, get, disk>>

-----------------------------------------------------------------------------
(* Values.                                                                 *)

\* bounds: a word, no word, too many; files and directories within and over
\* the server's limit, and a file whose extension is not on the list.
Contents ==
  {[is |-> "words", size |-> n, ext |-> "none"] : n \in {0, 1, MaxText + 1}}
    \cup [is : {"file"}, size : {1, 3}, ext : {"listed", "unlisted", "none"}]
    \cup [is : {"dir"}, size : {1, 3}, ext : {"listed"}]

Fallback == 3                       \* SERVER_MAX_BYTES
ConfigAnswers == {-1, 0, 2}         \* /shares/config: unavailable, nonsense, maxBytes

\* What is stored: words, a plain file, or a packed folder, whose archive
\* another client may have written: symbolic links and names that leave the
\* directory are its entries too.
Archives == {<<"a", "b">>, <<"a", "link">>, <<"a", "unsafe">>}
NoArchive == <<>>

Gone == [live |-> FALSE]

\* The directory: names to save under, and the folder an archive extracts to.
\* A file holds nothing (it is not there), what its user put there, half an
\* entry, or a version of the share.
None == 0
Mine == -1
Part == -2
Names == <<"doc", "doc (1)", "doc (2)">>
Inside == {"a", "b", "c"}
EmptyDisk == [top |-> [n \in ToSet(Names) |-> None], dest |-> FALSE,
              tree |-> [n \in Inside |-> None]]
UsedDisk == [top |-> [EmptyDisk.top EXCEPT !["doc"] = Mine], dest |-> TRUE,
             tree |-> [n \in Inside |-> IF n = "b" THEN None ELSE Mine]]

Idle == [pc |-> "idle"]

StoreInit ==
  /\ share = Gone
  /\ owner = [pc |-> "share", left |-> MaxManage]
  /\ get = [g \in Getters |-> Idle]
  /\ disk \in {EmptyDisk, UsedDisk}

-----------------------------------------------------------------------------
(* The owner: share.                                                       *)

OwnerGoes(r) == owner' = r /\ UNCHANGED <<get, disk>>

\* A command line that is accepted and content that validates; p2p, local
\* and sync go their own way.
Share ==
  \E content \in Contents : \E o \in Outcomes[content.is = "dir"] :
    /\ owner.pc = "share"
    /\ Validate(content, [length |-> MinPassword], o.mode, o.type)
    /\ OwnerGoes(IF o.mode = "u"
                   THEN [pc |-> "limit", left |-> owner.left, content |-> content,
                         flag |-> o.type, asked |-> o.asked]
                   ELSE [pc |-> "handed over", left |-> 0, content |-> content,
                         flag |-> o.type, asked |-> o.asked])
    /\ UNCHANGED share

\* Some command line is refused for any content, and some password is short.
Refuse ==
  /\ owner.pc = "share"
  /\ \E content \in Contents, length \in {MinPassword - 1, MinPassword} :
       \/ SomeRefused[content.is = "dir"]
       \/ \E o \in Outcomes[content.is = "dir"] :
            ~Validate(content, [length |-> length], o.mode, o.type)
  /\ OwnerGoes([pc |-> "refused", left |-> 0])
  /\ UNCHANGED share

LimitOf(answer) == IF answer > 0 THEN answer ELSE Fallback

FetchServerLimit ==
  /\ owner.pc = "limit"
  /\ \E answer \in ConfigAnswers :
       OwnerGoes([pc |-> "upload", left |-> owner.left, content |-> owner.content,
                  flag |-> owner.flag, asked |-> owner.asked, limit |-> LimitOf(answer)])
  /\ UNCHANGED share

\* read_input, the size check on the bytes that travel, create_share, which
\* may fail, or succeed without its answer arriving: then nobody has the id.
CreateShare ==
  /\ owner.pc = "upload"
  /\ LET type == ShareContentType(owner.flag) IN
     \/ /\ type = "file" => owner.content.is # "words" /\ owner.content.size <= owner.limit
        /\ \E oneTime \in BOOLEAN,
              archive \in IF type = "file" /\ owner.content.is = "dir"
                           THEN Archives ELSE {NoArchive} :
             share' = [live |-> TRUE, version |-> 1, type |-> type, pwd |-> "pwd" \in owner.asked,
                       ext |-> owner.content.ext, oneTime |-> oneTime,
                       archive |-> archive]
        /\ OwnerGoes([pc |-> "shared", left |-> owner.left])
     \/ OwnerGoes([pc |-> "refused", left |-> 0]) /\ UNCHANGED share

-----------------------------------------------------------------------------
(* The owner: manage.                                                      *)

Manage ==
  /\ owner.pc = "shared" /\ owner.left > 0
  /\ \/ \E content \in Contents, flag \in {"txt", "file", "pwd"} :
          OwnerGoes([pc |-> "verify", left |-> owner.left - 1, action |-> "replace",
                     content |-> content, type |-> ManageContentType(flag)])
     \/ OwnerGoes([pc |-> "verify", left |-> owner.left - 1, action |-> "destroy"])
  /\ UNCHANGED share

\* verify_owner: 404 when the share is gone; a replacement keeps the type.
VerifyOwner ==
  /\ owner.pc = "verify"
  /\ OwnerGoes(IF share.live /\ (owner.action = "replace" => owner.type = share.type)
                 THEN [owner EXCEPT !.pc = "act"]
                 ELSE [pc |-> "shared", left |-> owner.left])
  /\ UNCHANGED share

\* The limit, the content and the request, on a share that a recipient may
\* have consumed since it was verified.
Act ==
  /\ owner.pc = "act"
  /\ OwnerGoes([pc |-> "shared", left |-> owner.left])
  /\ \/ UNCHANGED share
     \/ /\ share.live /\ owner.action = "destroy"
        /\ share' = Gone
     \/ /\ share.live /\ owner.action = "replace"
        /\ \E answer \in ConfigAnswers :
             ReadContent(owner.content, owner.type, LimitOf(answer))
        /\ share' = [share EXCEPT !.version = @ + 1, !.ext = owner.content.ext,
                                  !.archive = NoArchive]

-----------------------------------------------------------------------------
(* A getter: from the server.                                              *)

GetGoes(g, r) == get' = [get EXCEPT ![g] = r]
Ends(g, how) == GetGoes(g, [pc |-> how])

\* get_share_metadata; a share that is not found sends a bare id to P2P.
FetchMetadata(g) ==
  /\ get[g].pc = "idle" /\ owner.pc # "share"
  /\ \E bareId, rightPassword \in BOOLEAN :
       CASE ~share.live /\ bareId  -> Ends(g, "p2p")
         [] ~share.live /\ ~bareId -> Ends(g, "unavailable")
         [] OTHER -> GetGoes(g, [pc |-> "challenge", version |-> share.version,
                                 right |-> rightPassword])
  /\ UNCHANGED <<share, owner, disk>>

\* decrypt_challenge: a wrong password is found out here, without a request.
DecryptChallenge(g) ==
  /\ get[g].pc = "challenge"
  /\ IF get[g].right THEN GetGoes(g, [pc |-> "answer", version |-> get[g].version])
                     ELSE Ends(g, "wrong password")
  /\ UNCHANGED <<share, owner, disk>>

Payload(s) == [version |-> s.version, type |-> s.type, ext |-> s.ext, archive |-> s.archive]

\* get_share_payload: a challenge is good for the version it came with, and a
\* one-time share is consumed whether or not the answer arrives.
FetchPayload(g) ==
  /\ get[g].pc = "answer"
  /\ IF share.live /\ share.version = get[g].version
       THEN /\ share' = IF share.oneTime THEN Gone ELSE share
            /\ \/ Ends(g, "lost")
               \/ \E noExtract, replaceDelete \in BOOLEAN :
                    GetGoes(g, [pc |-> "payload", noExtract |-> noExtract,
                                replaceDelete |-> replaceDelete,
                                payload |-> Payload(share)])
       ELSE Ends(g, "expired") /\ UNCHANGED share
  /\ UNCHANGED <<owner, disk>>

ShowText(g) ==
  /\ get[g].pc = "payload" /\ get[g].payload.type # "file"
  /\ Ends(g, "shown")
  /\ UNCHANGED <<share, owner, disk>>

-----------------------------------------------------------------------------
(* A getter: onto the disk (save_received_file).                           *)

Saving(g) == get[g].pc \in {"named", "extract", "entries"}
Free(d) == {i \in 1..Len(Names) : d.top[Names[i]] = None}

\* deduplicate_path: the first name that does not exist.
Undeduplicated(d) == "doc"
Deduplicated(d) == IF Free(d) = {} THEN "doc" ELSE Names[Min(Free(d))]

\* Two runs that save at once share the directory: neither is alone.
DeduplicatePath(g) ==
  /\ get[g].pc = "payload" /\ get[g].payload.type = "file"
  /\ LET others == {h \in Getters \ {g} : Saving(h)}
         mine == [pc |-> "named", noExtract |-> get[g].noExtract,
                  replaceDelete |-> get[g].replaceDelete, payload |-> get[g].payload,
                  path |-> Deduplicated(disk), before |-> disk, alone |-> others = {},
                  i |-> 1, existed |-> FALSE]
     IN get' = [h \in Getters |-> IF h = g THEN mine
                                  ELSE IF h \in others THEN [get[h] EXCEPT !.alone = FALSE]
                                  ELSE get[h]]
  /\ UNCHANGED <<share, owner, disk>>

IsFolder(g) == get[g].payload.archive # NoArchive

\* confirm_unsafe_file, whose prompt (on a terminal) may be declined, then
\* the write, which may fail before or after it has opened the file.
WriteFile(g) ==
  /\ get[g].pc = "named"
  /\ \/ /\ disk' = [disk EXCEPT !.top[get[g].path] = get[g].payload.version]
        /\ GetGoes(g, [get[g] EXCEPT !.pc = IF IsFolder(g) /\ ~get[g].noExtract
                                             THEN "extract" ELSE "saved"])
     \/ /\ get[g].payload.ext # "listed"
        /\ GetGoes(g, [get[g] EXCEPT !.pc = "aborted"])
        /\ UNCHANGED disk
     \/ /\ \E left \in {disk.top[get[g].path], Part} :
             disk' = [disk EXCEPT !.top[get[g].path] = left]
        /\ GetGoes(g, [get[g] EXCEPT !.pc = "aborted"])
  /\ UNCHANGED <<share, owner>>

\* archive::extract, first pass: every name is checked before the first
\* write; then the destination is created.  The archive is the one that is
\* under the name now: another run that took the name too may have written
\* over it, with what it received, an archive or not.
ExistedOnceCreated(d) == TRUE
DestExisted(d) == d.dest

Found(g) ==
  LET there == disk.top[get[g].path]
      archives == IF there = get[g].payload.version THEN {get[g].payload.archive}
                  ELSE IF there > None THEN Archives ELSE {}
  IN  {[version |-> there, archive |-> a] : a \in archives}

BeginExtract(g) ==
  /\ get[g].pc = "extract"
  /\ \/ /\ \E found \in Found(g) :
             /\ "unsafe" \notin ToSet(found.archive)
             /\ GetGoes(g, [get[g] EXCEPT !.pc = "entries", !.payload = found,
                                          !.existed = DestExisted(disk)])
        /\ disk' = [disk EXCEPT !.dest = TRUE]
     \/ GetGoes(g, [get[g] EXCEPT !.pc = "kept"]) /\ UNCHANGED disk
  /\ UNCHANGED <<share, owner>>

Entry(g) == get[g].payload.archive[get[g].i]
\* The files that are wholly written when entry i is at hand.
Written(g) ==
  {get[g].payload.archive[k] : k \in 1..(get[g].i - 1)} \cap Inside

\* One entry, with its parent directories; a symbolic link is skipped.
Opened(g, d, content) == [d EXCEPT !.dest = TRUE, !.tree[Entry(g)] = content]
ExtractEntry(g) ==
  /\ get[g].pc = "entries" /\ get[g].i <= Len(get[g].payload.archive)
  /\ disk' = IF Entry(g) \in Inside THEN Opened(g, disk, get[g].payload.version) ELSE disk
  /\ GetGoes(g, [get[g] EXCEPT !.i = @ + 1])
  /\ UNCHANGED <<share, owner>>

\* An entry fails, before its directories are there, after, or half written:
\* what this run created goes, or, in a folder that was there before, what it
\* finished.
RemovedFinished(g, d) ==
  [d EXCEPT !.tree = [n \in Inside |-> IF n \in Written(g) THEN None ELSE d.tree[n]]]
CleanedUp(g, d) ==
  IF ~get[g].existed THEN [d EXCEPT !.dest = FALSE, !.tree = EmptyDisk.tree]
  ELSE RemovedFinished(g, d)

ExtractFails(g) ==
  /\ get[g].pc = "entries" /\ get[g].i <= Len(get[g].payload.archive)
  /\ Entry(g) \in Inside
  /\ \E d \in {disk} \cup {Opened(g, disk, part) : part \in {disk.tree[Entry(g)], Part}} :
       disk' = CleanedUp(g, d)
  /\ GetGoes(g, [get[g] EXCEPT !.pc = "kept"])
  /\ UNCHANGED <<share, owner>>

\* The archive goes, and with --replace-delete everything that it did not
\* contain: a file that cannot be deleted is a warning.  An error is an
\* archive that cannot be removed (another run has taken it), or, once it is
\* removed, a folder that cannot be listed.
Pruned(g, d, undeleted) ==
  IF get[g].replaceDelete
    THEN [n \in Inside |-> IF n \in Written(g) \cup undeleted THEN d.tree[n] ELSE None]
    ELSE d.tree
Extras(g, d) ==
  IF get[g].replaceDelete THEN {n \in Inside \ Written(g) : d.tree[n] # None} ELSE {}

FinishExtract(g) ==
  /\ get[g].pc = "entries" /\ get[g].i > Len(get[g].payload.archive)
  /\ \/ /\ disk.top[get[g].path] # None
        /\ \E undeleted \in SUBSET Extras(g, disk) :
             /\ disk' = [disk EXCEPT !.top[get[g].path] = None,
                                     !.tree = Pruned(g, disk, undeleted)]
             /\ GetGoes(g, [get[g] EXCEPT !.pc = IF undeleted = {} THEN "saved" ELSE "warned"])
     \/ /\ disk.top[get[g].path] # None /\ get[g].replaceDelete
        /\ disk' = [disk EXCEPT !.top[get[g].path] = None]
        /\ GetGoes(g, [get[g] EXCEPT !.pc = "aborted"])
     \/ GetGoes(g, [get[g] EXCEPT !.pc = "aborted"]) /\ UNCHANGED disk
  /\ UNCHANGED <<share, owner>>

StoreNext ==
  \/ Share \/ Refuse \/ FetchServerLimit \/ CreateShare
  \/ Manage \/ VerifyOwner \/ Act
  \/ \E g \in Getters :
       \/ FetchMetadata(g) \/ DecryptChallenge(g) \/ FetchPayload(g) \/ ShowText(g)
       \/ DeduplicatePath(g) \/ WriteFile(g)
       \/ BeginExtract(g) \/ ExtractEntry(g) \/ ExtractFails(g) \/ FinishExtract(g)

StoreSpec == StoreInit /\ [][StoreNext]_storeVars

-----------------------------------------------------------------------------
(* Properties.                                                             *)

\* A directory is stored, or handed to a P2P flow, as the words of its path
\* only when the command line says so (validate_folder_flags: "never a silent
\* fall-back to sharing the path string as text"), whatever flags and aliases
\* it is made of.
DirectoryIsNeverSentAsText ==
  owner.pc \in {"limit", "upload", "handed over"} =>
    (owner.content.is = "dir" /\ owner.flag \in {"txt", "password"}
       => owner.asked \cap {"txt", "pwd"} # {})

\* A run of `get` that had the directory to itself and ends well, without a
\* warning, leaves it as it was, but for the file under a name that was free,
\* or, of a folder, for its entries and what --replace-delete removes; the
\* archive is gone.
LeftWhole(g) ==
  LET was == get[g].before
      new == get[g].payload.version
      entries == ToSet(get[g].payload.archive) \cap Inside
  IN /\ was.top[get[g].path] = None
     /\ IF IsFolder(g) /\ ~get[g].noExtract
          THEN disk' = [top |-> was.top, dest |-> TRUE,
                        tree |-> [n \in Inside |-> IF n \in entries THEN new
                                                   ELSE IF get[g].replaceDelete THEN None
                                                   ELSE was.tree[n]]]
          ELSE disk' = [was EXCEPT !.top[get[g].path] = new]
SavedWhole ==
  [][\A g \in Getters :
       (get[g].pc # "saved" /\ get'[g].pc = "saved" /\ get[g].alone) => LeftWhole(g)]_storeVars

\* An extraction that fails (a name that leaves the folder, an entry that
\* cannot be written) with the directory to itself keeps the archive, leaves
\* no folder that was not there, and in one that was, the files it had not
\* come to; those it had finished are gone.  The entry at hand is as it was or
\* half written: archive.rs:124-125 says that "partial output is deleted: ...
\* every file this run wrote", and the code counts a file as written only when
\* it is complete (212-214), so the half of one stays in place of the old file.
LeftClean(g) ==
  LET was == get[g].before
      begun == get[g].pc = "entries"
  IN /\ disk'.top = [was.top EXCEPT ![get[g].path] = get[g].payload.version]
     /\ disk'.dest = was.dest
     /\ \A n \in Inside :
          \/ disk'.tree[n] = was.tree[n]
          \/ was.dest /\ begun /\ n \in Written(g) /\ disk'.tree[n] = None
          \/ was.dest /\ begun /\ n = Entry(g) /\ disk'.tree[n] = Part
FailedExtractCleansUp ==
  [][\A g \in Getters :
       (get[g].pc # "kept" /\ get'[g].pc = "kept" /\ get[g].alone) => LeftClean(g)]_storeVars

\* A share is stored as a password exactly when the command line asked for
\* that: "`--pwd` | — | Share as a password-type secret" (README.md:95).
TypeFlagIsStored ==
  share.live => (share.type = "password" <=> share.pwd)
=============================================================================
