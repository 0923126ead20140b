--------------------------- MODULE KraftfileProofs ---------------------------
(***************************************************************************)
(* The parser, whatever the file holds and however often the directory is  *)
(* edited during the call.                                                 *)
(***************************************************************************)
EXTENDS Kraftfile, SequenceTheorems, TLAPS

(***************************************************************************)
(* Targets                                                                 *)
(***************************************************************************)
Target == [plat : Text, arch : Text, name : Text]

(* A text is a sequence of words, never without one. *)
LEMMA EmptyIsText == Empty \in Text
  BY DEF Empty, Text

LEMMA TextIsSeq ==
  ASSUME NEW t \in Text
  PROVE  /\ t \in Seq(Words \cup {NoWord}) /\ t # <<>>
         /\ Len(t) \in Nat \ {0} /\ \A i \in 1..Len(t) : t[i] \in Words \cup {NoWord}
<1>1. t \in Seq(Words \cup {NoWord}) /\ t # <<>>
  BY DEF Text
<1>2. Len(t) \in Nat \ {0}
  BY <1>1, EmptySeq
<1> QED BY <1>1, <1>2, ElementOfSeq

(* A text without a slash is its word. *)
LEMMA OneWord ==
  ASSUME NEW t \in Text, Len(t) = 1
  PROVE  t = <<t[1]>>
<1>1. t \in Seq(Words \cup {NoWord}) /\ <<t[1]>> \in Seq(Words \cup {NoWord}) /\ Len(<<t[1]>>) = 1
  BY TextIsSeq
<1>2. \A i \in 1..Len(t) : t[i] = <<t[1]>>[i]
  OBVIOUS
<1> QED BY <1>1, <1>2, SeqEqual

(* The split of a text at its first slash.                                 *)
LEMMA HeadTail ==
  ASSUME NEW t \in Text, Len(t) # 1
  PROVE  <<Head(t)>> \in Text /\ Tail(t) \in Text /\ t = <<Head(t)>> \o Tail(t)
<1> DEFINE W == Words \cup {NoWord}
<1>1. t \in Seq(W) /\ t # <<>> /\ Len(t) \in Nat \ {0, 1}
  BY TextIsSeq
<1>2. /\ Head(t) \in W /\ Tail(t) \in Seq(W) /\ Len(Tail(t)) = Len(t) - 1
      /\ \A i \in 1..Len(Tail(t)) : Tail(t)[i] = t[i+1]
  BY <1>1, HeadTailProperties
<1>3. <<Head(t)>> \in Seq(W) /\ Len(<<Head(t)>>) = 1 /\ <<Head(t)>>[1] = t[1]
  BY <1>1, <1>2
<1>4. Tail(t) # <<>> /\ <<Head(t)>> # <<>>
  <2>1. Len(Tail(t)) # 0 /\ Len(<<Head(t)>>) # 0
    BY <1>1, <1>2, <1>3
  <2>2. Len(<<>>) = 0
    BY EmptySeq
  <2> QED BY <2>1, <2>2
<1>5. /\ <<Head(t)>> \o Tail(t) \in Seq(W) /\ Len(<<Head(t)>> \o Tail(t)) = Len(t)
      /\ \A i \in 1..Len(t) : (<<Head(t)>> \o Tail(t))[i] =
           IF i <= 1 THEN <<Head(t)>>[i] ELSE Tail(t)[i - 1]
  BY <1>1, <1>2, <1>3, ConcatProperties
<1>6. \A i \in 1..Len(t) : t[i] = (<<Head(t)>> \o Tail(t))[i]
  BY <1>1, <1>2, <1>3, <1>5
<1>7. t = <<Head(t)>> \o Tail(t)
  BY <1>1, <1>5, <1>6, SeqEqual
<1> QED BY <1>2, <1>3, <1>4, <1>7 DEF Text

LEMMA ParsedIsTarget == ASSUME NEW item \in Item PROVE ParseItem(item) \in Target
<1>1. CASE item.shape = "text"
  <2>1. item.text \in Text /\ ParseItem(item) = ShortForm(item.text)
    BY <1>1 DEF Item, ParseItem
  <2>2. Len(item.text) # 1 => <<Head(item.text)>> \in Text /\ Tail(item.text) \in Text
    BY <2>1, HeadTail
  <2> QED BY <2>1, <2>2, EmptyIsText DEF ShortForm, Target
<1>2. CASE item.shape = "map"
  BY <1>2 DEF Item, Keys, ParseItem, LongForm, Or, Target
<1>3. CASE item.shape = "list"
  BY <1>3, EmptyIsText DEF ParseItem, Nothing, Target
<1> QED BY <1>1, <1>2, <1>3 DEF Item

(* Of texts, only two single words make "p/a".                             *)
LEMMA TwoWords ==
  ASSUME NEW u \in Text, NEW v \in Text, NEW p \in Words, NEW a \in Words
  PROVE  u \o v = <<p, a>> <=> u = <<p>> /\ v = <<a>>
<1> DEFINE W == Words \cup {NoWord}
<1>1. u \in Seq(W) /\ v \in Seq(W) /\ Len(u) \in Nat \ {0} /\ Len(v) \in Nat \ {0}
  BY TextIsSeq
<1>2. Len(u \o v) = Len(u) + Len(v)
  BY <1>1, ConcatProperties
<1>3. \A i \in 1..Len(u) + Len(v) : (u \o v)[i] = IF i <= Len(u) THEN u[i] ELSE v[i - Len(u)]
  BY <1>1, ConcatProperties
<1>4. ASSUME u \o v = <<p, a>> PROVE u = <<p>> /\ v = <<a>>
  <2>1. Len(u \o v) = 2 /\ (u \o v)[1] = p /\ (u \o v)[2] = a
    BY <1>4
  <2>2. Len(u) = 1 /\ Len(v) = 1
    <3>1. \A m, n \in Nat \ {0} : m + n = 2 => m = 1 /\ n = 1
      OBVIOUS
    <3> QED BY <1>1, <1>2, <2>1, <3>1
  <2>3. u[1] = p /\ v[1] = a
    BY <1>3, <2>1, <2>2
  <2> QED BY <2>2, <2>3, OneWord
<1>5. ASSUME u = <<p>>, v = <<a>> PROVE u \o v = <<p, a>>
  <2>1. Len(u) = 1 /\ Len(v) = 1 /\ u[1] = p /\ v[1] = a
    BY <1>5
  <2>2. Len(u \o v) = 2 /\ (u \o v)[1] = p /\ (u \o v)[2] = a
    BY <1>2, <1>3, <2>1
  <2>3. u \o v \in Seq(W) /\ <<p, a>> \in Seq(W) /\ Len(<<p, a>>) = 2
    BY <1>1, ConcatProperties
  <2>4. \A i \in 1..2 : (u \o v)[i] = <<p, a>>[i]
    BY <2>2
  <2> QED BY <2>2, <2>3, <2>4, SeqEqual
<1> QED BY <1>4, <1>5

(* What an item of each shape is parsed to.                                *)
LEMMA TextParsed ==
  ASSUME NEW item \in Item, item.shape = "text"
  PROVE  LET t == ParseItem(item) IN
         /\ item.text \in Text
         /\ Len(item.text) = 1 => t.plat = Empty /\ t.arch = Empty /\ t.name = item.text
         /\ Len(item.text) # 1 =>
              /\ item.text = t.plat \o t.arch /\ t.name = Empty
              /\ t.plat = <<Head(item.text)>>
<1>1. item.text \in Text /\ ParseItem(item) = ShortForm(item.text)
  BY DEF Item, ParseItem
<1>2. Len(item.text) # 1 => item.text = <<Head(item.text)>> \o Tail(item.text)
  BY <1>1, HeadTail
<1> QED BY <1>1, <1>2 DEF ShortForm

LEMMA MapParsed ==
  ASSUME NEW item \in Item, item.shape = "map"
  PROVE  LET t == ParseItem(item) IN
         /\ t.name = item.keys.name
         /\ \A text : t.plat = text <=> Plat(item.keys, text)
         /\ \A text : t.arch = text <=> Arch(item.keys, text)
  BY DEF ParseItem, LongForm, Or, Plat, Arch, Key

(* When a target made of an item prints as "p/a".                          *)
LEMMA PrintsAs ==
  ASSUME NEW item \in Item, NEW p \in Words, NEW a \in Words
  PROVE  ParseItem(item) # Nothing /\ TargetString(ParseItem(item)) = <<p, a>>
           <=> Declares(item, p, a)
<1> DEFINE t == ParseItem(item)
<1>0. t \in Target /\ <<p, a>> # Empty /\ <<p>> # Empty /\ <<a>> # Empty
  BY ParsedIsTarget, KraftfileAssumption DEF Empty
<1>1. t.plat \o t.arch = <<p, a>> <=> t.plat = <<p>> /\ t.arch = <<a>>
  <2>1. t.plat \in Text /\ t.arch \in Text
    BY <1>0 DEF Target
  <2>2. \A u, v \in Text : u \o v = <<p, a>> <=> u = <<p>> /\ v = <<a>>
    BY TwoWords
  <2> QED BY <2>1, <2>2
<1>2. t # Nothing /\ TargetString(t) = <<p, a>> <=>
        \/ t.plat = <<p>> /\ t.arch = <<a>>
        \/ t.name = <<p, a>> /\ (t.plat = Empty \/ t.arch = Empty)
        \/ t.plat = <<p, a>> /\ t.arch = Empty /\ t.name = Empty
  <2>1. TargetString(t) = <<p, a>> <=>
          \/ t.plat = <<p>> /\ t.arch = <<a>>
          \/ t.name = <<p, a>> /\ (t.plat = Empty \/ t.arch = Empty)
          \/ t.plat = <<p, a>> /\ t.arch = Empty /\ t.name = Empty
    BY <1>0, <1>1 DEF TargetString
  <2>2. t = Nothing => t.plat = Empty /\ t.name = Empty
    BY DEF Nothing
  <2> QED BY <1>0, <2>1, <2>2
<1>3. CASE item.shape = "text"
  <2>1. Len(item.text) # 1 => (item.text = <<p, a>> <=> t.plat = <<p>> /\ t.arch = <<a>>)
    <3>1. Len(item.text) # 1 => item.text = t.plat \o t.arch
      BY <1>3, TextParsed
    <3> HIDE DEF t
    <3> QED BY <1>1, <3>1
  <2>2. Len(item.text) = 1 => item.text # <<p, a>>
    OBVIOUS
  <2>3. Len(item.text) # 1 => t.name = Empty /\ t.plat # <<p, a>>
    <3>1. \A x : <<x>> # <<p, a>>
      OBVIOUS
    <3> QED BY <1>3, <3>1, TextParsed
  <2>4. Len(item.text) = 1 => t.name = item.text /\ t.plat = Empty
    BY <1>3, TextParsed
  <2> QED BY <1>0, <1>2, <1>3, <2>1, <2>2, <2>3, <2>4 DEF Declares
<1>4. CASE item.shape = "map"
  BY <1>2, <1>4, MapParsed DEF Declares
<1>5. CASE item.shape = "list"
  BY <1>5 DEF ParseItem, Declares
<1> QED BY <1>3, <1>4, <1>5 DEF Item

(***************************************************************************)
(* The inductive invariant                                                 *)
(***************************************************************************)

(* A candidate that was passed over was absent then, and what was there    *)
(* throughout is there now.                                                *)
SearchInv ==
  /\ dir \in [Candidates -> {"absent", "file", "directory"}]
  /\ edits \in Nat /\ path \in Candidates
  /\ at \in {"search", "read", "none", "failed", "targets", "parsed"}
  /\ steady \subseteq There
  /\ \A c \in steady : c >= path
  /\ at = "none" => steady = {}
  /\ at = "read" => dir[path] # "absent" \/ edits > 0
  /\ at = "failed" /\ doc # Broken => edits > 0 \/ dir[path] = "directory"

(* The targets are those of the items that were visited, as far as they    *)
(* have content.                                                           *)
TargetsInv ==
  /\ at \in {"targets", "parsed"} => doc \in Seq(Item) /\ seen \in 0..Len(doc)
  /\ at = "parsed" => seen = Len(doc)
  /\ at \notin {"targets", "parsed"} => seen = 0
  /\ targets \in Seq(Target)
  /\ \A k \in 1..Len(targets) : \E i \in 1..seen :
       targets[k] = ParseItem(doc[i]) /\ targets[k] # Nothing
  /\ \A i \in 1..seen : ParseItem(doc[i]) # Nothing =>
       \E k \in 1..Len(targets) : targets[k] = ParseItem(doc[i])

LEMMA SearchAlways == Spec => []SearchInv
<1>1. Init => SearchInv
  BY DEF Init, SearchInv, There, Candidates
<1>2. SearchInv /\ [Next]_kfVars => SearchInv'
  <2> SUFFICES ASSUME SearchInv, [Next]_kfVars PROVE SearchInv'
    OBVIOUS
  <2> USE DEF SearchInv, There, Candidates, decoder
  <2>1. CASE StatCandidate
    BY <2>1 DEF StatCandidate, Goto
  <2>2. CASE ReadFile
    BY <2>2 DEF ReadFile, Goto
  <2>3. CASE DecodeItem
    BY <2>3 DEF DecodeItem
  <2>4. CASE RangeEnds
    BY <2>4 DEF RangeEnds, Goto
  <2>5. ASSUME NEW c \in Candidates, Edit(c) PROVE SearchInv'
    <3>1. /\ dir' \in [Candidates -> {"absent", "file", "directory"}] /\ edits' \in Nat /\ edits' > 0
          /\ UNCHANGED <<at, path, doc>> /\ at \in {"search", "read"}
      BY <2>5 DEF Edit
    <3>2. steady' \subseteq steady /\ \A d \in steady' : dir'[d] # "absent"
      BY <2>5 DEF Edit
    <3> QED BY <3>1, <3>2
  <2>6. CASE UNCHANGED kfVars
    BY <2>6 DEF kfVars
  <2> QED BY <2>1, <2>2, <2>3, <2>4, <2>5, <2>6 DEF Next
<1> QED BY <1>1, <1>2, PTL DEF Spec

LEMMA TargetsAlways == Spec => []TargetsInv
<1>1. Init => TargetsInv
  <2>1. <<>> \in Seq(Target) /\ Len(<<>>) = 0
    BY EmptySeq
  <2> QED BY <2>1 DEF Init, TargetsInv
<1>2. TargetsInv /\ [Next]_kfVars => TargetsInv'
  <2> SUFFICES ASSUME TargetsInv, [Next]_kfVars PROVE TargetsInv'
    OBVIOUS
  <2>1. CASE StatCandidate
    BY <2>1 DEF StatCandidate, Goto, decoder, TargetsInv
  <2>2. CASE ReadFile
    <3>1. /\ at = "read" /\ at' \in {"failed", "targets"} /\ seen = 0
          /\ UNCHANGED <<seen, targets>>
          /\ at' = "targets" => doc' \in Documents
      BY <2>2 DEF ReadFile, Goto, TargetsInv
    <3>2. at' = "targets" => doc' \in Seq(Item) /\ Len(doc') \in Nat
      <4>1. Documents \subseteq Seq(Item) /\ \A d \in Seq(Item) : Len(d) \in Nat
        BY KraftfileAssumption, LenProperties
      <4> QED BY <3>1, <4>1
    <3>3. Len(targets) \in Nat /\ 1..seen = {}
      BY <3>1, LenProperties DEF TargetsInv
    <3>4. 1..Len(targets) = {}
      BY <3>3 DEF TargetsInv
    <3>5. /\ at' \in {"targets", "parsed"} => doc' \in Seq(Item) /\ seen' \in 0..Len(doc')
          /\ at' # "parsed" /\ seen' = 0 /\ targets' \in Seq(Target)
      BY <3>1, <3>2 DEF TargetsInv
    <3>6. 1..seen' = {} /\ 1..Len(targets') = {}
      BY <3>1, <3>3, <3>4
    <3> QED BY <3>5, <3>6 DEF TargetsInv
  <2>3. CASE DecodeItem
    <3> DEFINE t == ParseItem(doc[seen + 1])
    <3>1. /\ at = "targets" /\ at' = at /\ doc' = doc /\ doc \in Seq(Item)
          /\ seen \in Nat /\ seen' = seen + 1 /\ seen' \in 1..Len(doc)
          /\ targets' = IF t = Nothing THEN targets ELSE Append(targets, t)
      BY <2>3, LenProperties DEF DecodeItem, TargetsInv
    <3>2. doc[seen + 1] \in Item
      BY <3>1, ElementOfSeq
    <3>3. t \in Target
      BY <3>2, ParsedIsTarget
    <3>4. targets \in Seq(Target) /\ Len(targets) \in Nat
      BY LenProperties DEF TargetsInv
    <3>5. CASE t = Nothing
      BY <3>1, <3>4, <3>5 DEF TargetsInv
    <3>6. CASE t # Nothing
      <4> HIDE DEF t
      <4>1. /\ targets' \in Seq(Target) /\ Len(targets') = Len(targets) + 1
            /\ targets'[Len(targets) + 1] = t
            /\ \A k \in 1..Len(targets) : targets'[k] = targets[k]
        BY <3>1, <3>3, <3>4, <3>6, AppendProperties
      <4>2. \A k \in 1..Len(targets') : \E i \in 1..seen' :
              targets'[k] = ParseItem(doc'[i]) /\ targets'[k] # Nothing
        <5> TAKE k \in 1..Len(targets')
        <5>1. CASE k = Len(targets) + 1
          BY <3>1, <3>6, <4>1, <5>1 DEF t
        <5>2. CASE k \in 1..Len(targets)
          BY <3>1, <4>1, <5>2 DEF TargetsInv
        <5> QED BY <3>4, <4>1, <5>1, <5>2
      <4>3. \A i \in 1..seen' : ParseItem(doc'[i]) # Nothing =>
              \E k \in 1..Len(targets') : targets'[k] = ParseItem(doc'[i])
        <5> TAKE i \in 1..seen'
        <5>1. CASE i = seen + 1
          BY <3>1, <3>4, <4>1, <5>1 DEF t
        <5>2. CASE i \in 1..seen
          BY <3>1, <3>4, <4>1, <5>2 DEF TargetsInv
        <5> QED BY <3>1, <5>1, <5>2
      <4>4. at' = "targets" /\ doc' \in Seq(Item) /\ seen' \in 0..Len(doc')
        BY <3>1
      <4>5. at' # "parsed" /\ at' \in {"targets", "parsed"}
        BY <4>4
      <4> QED BY <4>1, <4>2, <4>3, <4>4, <4>5, Zenon DEF TargetsInv
    <3> QED BY <3>5, <3>6
  <2>4. CASE RangeEnds
    BY <2>4 DEF RangeEnds, Goto, decoder, TargetsInv
  <2>5. ASSUME NEW c \in Candidates, Edit(c) PROVE TargetsInv'
    BY <2>5 DEF Edit, decoder, TargetsInv
  <2>6. CASE UNCHANGED kfVars
    BY <2>6 DEF kfVars, decoder, TargetsInv
  <2> QED BY <2>1, <2>2, <2>3, <2>4, <2>5, <2>6 DEF Next
<1> QED BY <1>1, <1>2, PTL DEF Spec

(***************************************************************************)
(* The properties                                                          *)
(***************************************************************************)

(* The first of the three names that was there throughout is never passed  *)
(* over, "no Kraftfile found" is said only if there was none, and a read   *)
(* fails of itself only on a directory or on a file that was edited.       *)
THEOREM SearchIsExact == Spec => []FirstCandidateWins
<1>1. SearchInv => FirstCandidateWins
  BY DEF SearchInv, FirstCandidateWins, Candidates
<1> QED BY <1>1, SearchAlways, PTL

(* A target is among ListTargetStrings exactly if an item that was decoded *)
(* prints as it.                                                           *)
LEMMA HasTargetOfItem ==
  ASSUME TargetsInv, at = "parsed", NEW text
  PROVE  HasTarget(text) <=>
           \E i \in DOMAIN doc : /\ ParseItem(doc[i]) # Nothing
                                /\ TargetString(ParseItem(doc[i])) = text
<1>1. DOMAIN doc = 1..seen /\ DOMAIN targets = 1..Len(targets)
  BY LenProperties DEF TargetsInv
<1>2. HasTarget(text) <=> \E k \in DOMAIN targets : TargetString(targets[k]) = text
  BY DEF HasTarget, ListTargetStrings
<1> QED BY <1>1, <1>2 DEF TargetsInv

(* HasTarget("p/a") is true exactly of what Declares says, for whatever    *)
(* targets the file declares and in whichever form.                        *)
THEOREM TargetsAreExact == Spec => []HasTargetExact
<1>1. TargetsInv => HasTargetExact
  <2> SUFFICES ASSUME TargetsInv, at = "parsed", NEW p \in Words, NEW a \in Words
               PROVE  HasTarget(<<p, a>>) <=> \E i \in DOMAIN doc : Declares(doc[i], p, a)
    BY DEF HasTargetExact
  <2>1. \A i \in DOMAIN doc : doc[i] \in Item
    BY LenProperties, ElementOfSeq DEF TargetsInv
  <2> QED BY <2>1, HasTargetOfItem, PrintsAs
<1> QED BY <1>1, TargetsAlways, PTL

=============================================================================
