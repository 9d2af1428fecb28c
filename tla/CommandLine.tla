---------------------------- MODULE CommandLine ----------------------------
(***************************************************************************)
(* The flags of `share` and `manage`: what src/main.rs makes of them, the  *)
(* validators of src/commands/share.rs, and the content type under which a *)
(* server share is stored.  Refusals differ in their text only.            *)
(***************************************************************************)
EXTENDS Integers, FiniteSets

MinPassword == 3
MaxText == 3      \* bound: MAX_TEXT_LENGTH (100 000)

\* Every command line `share` can be given; excludes: none, patterns, a
\* pattern file, or a pattern file that cannot be read.
ShareFlags ==
  [zip : BOOLEAN, sync : BOOLEAN, text : BOOLEAN, pwd : BOOLEAN, file : BOOLEAN,
   upload : BOOLEAN, p2p : BOOLEAN, local : BOOLEAN, address : BOOLEAN,
   alias : {"none", "txt", "file", "pwd", "zip", "sync", "bad"},
   mode : {"none", "upload", "p2p", "local", "bad"},
   excludes : {"none", "patterns", "file", "missing"}]

-----------------------------------------------------------------------------
(* The aliases -m and -t, merged into the booleans first.                  *)

WantsLocal(f) == f.local \/ f.mode = "local"
WantsP2p(f) == f.p2p \/ f.mode = "p2p"
WantsUpload(f) == f.upload \/ f.mode = "upload"
WantsZip(f) == f.zip \/ f.alias = "zip"
WantsSync(f) == f.sync \/ f.alias = "sync"

ModesAgree(f) == f.mode # "bad" /\ ~(WantsUpload(f) /\ (WantsP2p(f) \/ WantsLocal(f)))

\* validate_folder_flags; -t zip and -t sync are the flags' own aliases.
OtherType(f, own) == f.text \/ f.pwd \/ f.alias \notin {"none", own}

FolderFlagsWithoutBareRule(f, isDir) ==
  /\ ~(WantsZip(f) /\ WantsSync(f))
  /\ WantsSync(f) => ~OtherType(f, "sync") /\ (WantsP2p(f) \/ WantsLocal(f) \/ f.address) /\ isDir
  /\ WantsZip(f) => ~OtherType(f, "zip") /\ isDir
FolderFlagsAgree(f, isDir) ==
  /\ ~(WantsZip(f) /\ WantsSync(f))
  /\ WantsSync(f) => ~OtherType(f, "sync") /\ (WantsP2p(f) \/ WantsLocal(f) \/ f.address) /\ isDir
  /\ WantsZip(f) => ~OtherType(f, "zip") /\ isDir
  /\ ~WantsZip(f) /\ ~WantsSync(f) /\ isDir => f.text \/ f.pwd \/ f.alias \in {"txt", "pwd"}

\* validate_exclude_flag, validate_exclude_from_flag, resolve_exclude_patterns
ExcludesAgree(f) ==
  f.excludes = "none" \/ (f.excludes # "missing" /\ (WantsZip(f) \/ WantsSync(f)))

\* The three single types, with their aliases.
Types(f) == {t \in {"file", "txt", "pwd"} :
               \/ f.alias = t
               \/ t = "file" /\ f.file
               \/ t = "txt" /\ f.text
               \/ t = "pwd" /\ f.pwd}

Accepted(f, isDir) ==
  /\ f.alias # "bad" /\ ModesAgree(f) /\ FolderFlagsAgree(f, isDir) /\ ExcludesAgree(f)
  /\ Cardinality(Types(f)) <= 1
  /\ f.address => WantsLocal(f)

ResolvedType(f) ==
  CASE WantsSync(f) -> "sync"
    [] WantsZip(f) /\ ~WantsSync(f) -> "zip"
    [] ~WantsZip(f) /\ ~WantsSync(f) /\ "file" \in Types(f) -> "file"
    [] ~WantsZip(f) /\ ~WantsSync(f) /\ "pwd" \in Types(f) -> "password"
    [] OTHER -> "txt"

ResolvedMode(f) == IF WantsLocal(f) THEN "local" ELSE IF WantsP2p(f) THEN "p2p" ELSE "u"

\* What the command lines that are accepted for a directory, or for something
\* else, come to; asked: every type they name.
Outcome(f) ==
  [type  |-> ResolvedType(f), mode |-> ResolvedMode(f),
   asked |-> Types(f) \cup (IF WantsZip(f) THEN {"zip"} ELSE {})
                      \cup (IF WantsSync(f) THEN {"sync"} ELSE {})]
SomeRefused == [isDir \in BOOLEAN |-> \E f \in ShareFlags : ~Accepted(f, isDir)]
Outcomes == [isDir \in BOOLEAN |-> {Outcome(f) : f \in {g \in ShareFlags : Accepted(g, isDir)}}]

-----------------------------------------------------------------------------
(* share.rs and manage.rs.                                                 *)

\* content: [is : "words", "file" or "dir", size, ext], where ext says that its
\* extension is on SUPPORTED_EXTENSIONS ("listed"), that it is not, or that it
\* has none (an env file, whose suffix only the owner's side drops, is "none").
\* As text, a path is the words it is written in.
TextLength(content) == IF content.is = "words" THEN content.size ELSE 1

Validate(content, password, mode, type) ==
  /\ password.length >= MinPassword
  /\ CASE type = "zip"  -> content.is = "dir"
       [] type = "sync" -> mode # "u" /\ content.is = "dir"
       [] type = "file" -> content.is # "dir" /\ (mode = "u" => content.ext # "unlisted")
       [] OTHER         -> TextLength(content) \in 1..MaxText

\* share.rs: what a flag is stored as.
ShareContentType(flag) ==
  CASE flag = "pwd" -> "password"
    [] flag \in {"file", "zip"} -> "file"
    [] flag = "sync" -> "sync"
    [] OTHER -> "text"

\* manage.rs: the flag that main.rs resolves, and the type it stands for.
ManageContentType(flag) ==
  CASE flag = "pwd" -> "password" [] flag = "file" -> "file" [] OTHER -> "text"

\* manage.rs read_content
ReadContent(content, type, limit) ==
  IF type = "file"
    THEN content.is = "file" /\ content.ext # "unlisted" /\ content.size <= limit
    ELSE TextLength(content) \in 1..MaxText
=============================================================================
