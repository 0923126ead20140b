------------------------------ MODULE Kraftfile ------------------------------
(***************************************************************************)
(* ParseKraftfile, and the lookups over the targets it returns, while an   *)
(* editor creates, replaces and removes the files that it looks for.       *)
(*                                                                         *)
(* A text is the sequence of the words between its slashes: <<NoWord>> is  *)
(* the empty one, <<"qemu", NoWord>> "qemu/". A value that is not a string *)
(* counts as empty, since the code does not tell the two apart.            *)
(***************************************************************************)
EXTENDS Naturals, Sequences

CONSTANTS
  Words,      \* what may stand between two slashes ...
  NoWord,     \* ... or nothing may
  Documents,  \* what a Kraftfile may hold: sequences of items of "targets"
  MaxEdits    \* bound on how often the directory changes during the call

Empty == <<NoWord>>
Text  == Seq(Words \cup {NoWord}) \ {<<>>}
Keys  == {"plat", "platform", "arch", "architecture", "name"}

(* A string, an object, or anything else. *)
Item == [shape : {"text"}, text : Text] \cup [shape : {"map"}, keys : [Keys -> Text]]
          \cup [shape : {"list"}]

(* A file that cannot be read, no YAML, or a field without its shape. *)
Broken == <<[shape |-> "broken"]>>

ASSUME KraftfileAssumption ==
  /\ NoWord \notin Words
  /\ Documents \subseteq Seq(Item)
  /\ MaxEdits \in Nat

VARIABLES
  dir,    \* what the directory has under each candidate's name
  edits,  \* changes made during the call
  steady, \* candidates that were there all the time
  at,     \* where the call is: at the search, the read, the targets, or its end
  path,   \* the candidate that is looked for, or was found
  doc,    \* what was read from it
  seen,   \* how many of its items the range has visited
  targets \* Kraftfile.Targets

decoder == <<doc, seen, targets>>
kfVars  == <<dir, edits, steady, at, path, decoder>>

(* Kraftfile, kraft.yaml, kraft.yml *)
Candidates == 1..3
There == {c \in Candidates : dir[c] # "absent"}

Init ==
  /\ dir \in [Candidates -> {"absent", "file", "directory"}]
  /\ edits = 0 /\ steady = There
  /\ at = "search" /\ path = 1
  /\ doc = <<>> /\ seen = 0 /\ targets = <<>>

(* Someone edits the project: an editor that saves by renaming, a checkout. *)
Edit(c) ==
  /\ at \in {"search", "read"}
  /\ edits < MaxEdits /\ edits' = edits + 1
  /\ \E kind \in {"absent", "file", "directory"} : dir' = [dir EXCEPT ![c] = kind]
  /\ steady' = IF dir'[c] = "absent" THEN steady \ {c} ELSE steady
  /\ UNCHANGED <<at, path, decoder>>

(***************************************************************************)
(* Targets.UnmarshalYAML                                                   *)
(***************************************************************************)
Or(a, b) == IF a # Empty THEN a ELSE b

(* "plat/arch", split at the first slash, or a name. *)
ShortForm(text) ==
  IF Len(text) = 1 THEN [plat |-> Empty, arch |-> Empty, name |-> text]
  ELSE [plat |-> <<Head(text)>>, arch |-> Tail(text), name |-> Empty]

(* Mutant: the long key overrides the short one. *)
LongFormOverridden(keys) ==
  [plat |-> Or(keys.platform, keys.plat), arch |-> Or(keys.architecture, keys.arch),
   name |-> keys.name]

LongForm(keys) ==
  [plat |-> Or(keys.plat, keys.platform), arch |-> Or(keys.arch, keys.architecture),
   name |-> keys.name]

Nothing == [plat |-> Empty, arch |-> Empty, name |-> Empty]

(* Items of other shapes are ignored ... *)
ParseItem(item) ==
  CASE item.shape = "text" -> ShortForm(item.text)
    [] item.shape = "map"  -> LongForm(item.keys)
    [] OTHER -> Nothing

Goto(from, to) == at = from /\ at' = to

(* ... and so are targets without content. *)
DecodeItem ==
  /\ at = "targets" /\ seen < Len(doc) /\ seen' = seen + 1
  /\ LET t == ParseItem(doc[seen']) IN
       targets' = IF t = Nothing THEN targets ELSE Append(targets, t)
  /\ UNCHANGED <<dir, edits, steady, at, path, doc>>

RangeEnds ==
  /\ seen = Len(doc) /\ Goto("targets", "parsed")
  /\ UNCHANGED <<dir, edits, steady, path, decoder>>

(***************************************************************************)
(* ParseKraftfile on a directory; on a file it is ReadFile alone           *)
(***************************************************************************)
(* Mutant: the loop leaves out every other candidate. *)
StatCandidateSkips ==
  /\ \/ dir[path] # "absent" /\ Goto("search", "read") /\ UNCHANGED path
     \/ dir[path] = "absent" /\ path = 1 /\ Goto("search", "search") /\ path' = 3
     \/ dir[path] = "absent" /\ path = 3 /\ Goto("search", "none") /\ UNCHANGED path
  /\ UNCHANGED <<dir, edits, steady, decoder>>

(* os.Stat succeeds on a directory too. *)
StatCandidate ==
  /\ \/ dir[path] # "absent" /\ Goto("search", "read") /\ UNCHANGED path
     \/ dir[path] = "absent" /\ path < 3 /\ Goto("search", "search") /\ path' = path + 1
     \/ dir[path] = "absent" /\ path = 3 /\ Goto("search", "none") /\ UNCHANGED path
  /\ UNCHANGED <<dir, edits, steady, decoder>>

(* os.ReadFile, and yaml.Unmarshal up to the targets. *)
ReadFile ==
  /\ \/ dir[path] # "file" /\ Goto("read", "failed") /\ UNCHANGED doc
     \/ dir[path] = "file" /\ Goto("read", "failed") /\ doc' = Broken
     \/ dir[path] = "file" /\ Goto("read", "targets") /\ doc' \in Documents
  /\ UNCHANGED <<dir, edits, steady, path, seen, targets>>

Next ==
  \/ StatCandidate \/ ReadFile \/ DecodeItem \/ RangeEnds
  \/ \E c \in Candidates : Edit(c)

Spec == Init /\ [][Next]_kfVars

(***************************************************************************)
(* ListTargetStrings and HasTarget                                         *)
(***************************************************************************)
TargetString(t) ==
  CASE t.plat # Empty /\ t.arch # Empty -> t.plat \o t.arch
    [] t.name # Empty /\ (t.plat = Empty \/ t.arch = Empty) -> t.name
    [] OTHER -> t.plat

ListTargetStrings == [i \in DOMAIN targets |-> TargetString(targets[i])]

HasTarget(text) == \E i \in DOMAIN targets : ListTargetStrings[i] = text

(***************************************************************************)
(* Properties                                                              *)
(***************************************************************************)

(* A name is not passed over for a later one while there is a file under   *)
(* it, and "no Kraftfile found" is said only if none of the three was      *)
(* there throughout, whatever is edited meanwhile. What was found is       *)
(* parsed, unless it changed between the Stat and the read, cannot be read *)
(* or parsed, or is a directory, which hides a file under the next name.   *)
FirstCandidateWins ==
  /\ at \in {"failed", "targets", "parsed"} => steady \cap 1..(path - 1) = {}
  /\ at = "none" => steady = {}
  /\ at = "failed" /\ doc # Broken => edits > 0 \/ dir[path] = "directory"

(* HasTarget finds a platform and architecture exactly if an item declares *)
(* them, in the short form or under either pair of keys, the short key     *)
(* before the long one; or if "p/a" is the name of an item that has not    *)
(* both, or the platform of one that has neither architecture nor name.    *)
Key(keys, short, long, text) ==
  IF keys[short] # Empty THEN keys[short] = text ELSE keys[long] = text

Plat(keys, text) == Key(keys, "plat", "platform", text)
Arch(keys, text) == Key(keys, "arch", "architecture", text)

Declares(item, p, a) ==
  \/ item.shape = "text" /\ item.text = <<p, a>>
  \/ /\ item.shape = "map"
     /\ \/ Plat(item.keys, <<p>>) /\ Arch(item.keys, <<a>>)
        \/ item.keys.name = <<p, a>> /\ (Plat(item.keys, Empty) \/ Arch(item.keys, Empty))
        \/ Plat(item.keys, <<p, a>>) /\ Arch(item.keys, Empty) /\ item.keys.name = Empty

HasTargetExact ==
  at = "parsed" => \A p, a \in Words :
    HasTarget(<<p, a>>) <=> \E i \in DOMAIN doc : Declares(doc[i], p, a)

=============================================================================
