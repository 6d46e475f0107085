-------------------------------- MODULE Versions --------------------------------
(***************************************************************************)
(* Maven versions, requirements and coordinates: rv-maven-types/src/       *)
(* version.rs, range.rs, snapshot.rs, coord.rs, component.rs, purl.rs.     *)
(* A text is a sequence of symbols: a version's are its numbers, words and *)
(* separators, a requirement's are brackets, commas and whole versions, a  *)
(* coordinate's are the segments between its colons.                       *)
(***************************************************************************)
EXTENDS Integers, Sequences, SequencesExt, FiniteSets, TLC

None == "none"
Error == [error |-> TRUE]

-----------------------------------------------------------------------------
(* version.rs: parsing                                                     *)

Separators == {".", "-"}
NumberOf == ("0" :> 0) @@ ("1" :> 1) @@ ("2" :> 2) @@ ("10" :> 10)
IsDigits(symbol) == symbol \in DOMAIN NumberOf

\* Items as pairs that compare as the derived order of the enum does: its
\* variants in their order, then the value.
MinItem == <<0, 0>>
Qualifier(value) == <<1, value>>
Text(rank) == <<2, rank>>
Number(value) == <<3, value>>
MaxItem == <<4, 0>>

IsNumber(item) == item[1] \in {0, 3, 4}

\* -1, 0, 1 for less than, equal to and greater than the padding.
CmpPadding(item) ==
    CASE item[1] = 0 -> -1
      [] item[1] = 1 -> (IF item[2] < 0 THEN -1 ELSE IF item[2] = 0 THEN 0 ELSE 1)
      [] item = Number(0) -> 0
      [] OTHER -> 1

QualifierOf == ("alpha" :> -5) @@ ("beta" :> -4) @@ ("milestone" :> -3) @@ ("cr" :> -2)
               @@ ("rc" :> -2) @@ ("snapshot" :> -1) @@ ("ga" :> 0) @@ ("final" :> 0) @@ ("sp" :> 1)
ShortOf == ("a" :> -5) @@ ("b" :> -4) @@ ("m" :> -3)
OtherWords == ("(" :> -2) @@ ("*" :> -1) @@ ("[" :> 0) @@ ("a" :> 1) @@ ("b" :> 2) @@ ("m" :> 3) @@ ("max" :> 4) @@ ("min" :> 5) @@ ("x" :> 6)

TextItem(word, last, beforeDigit) ==
    CASE last /\ word = "min" -> MinItem
      [] last /\ word = "max" -> MaxItem
      [] beforeDigit /\ word \in DOMAIN ShortOf -> Qualifier(ShortOf[word])
      [] word \in DOMAIN QualifierOf -> Qualifier(QualifierOf[word])
      [] OTHER -> Text(OtherWords[word])

\* A token ends at a separator, which it takes with it, or where digits and
\* letters meet. Nothing before a separator reads as zero.
RECURSIVE Tokens(_)
Tokens(text) ==
    IF text = <<>> THEN <<>> ELSE
    LET word == Head(text)
        after == Tail(text)
        rest == IF word \notin Separators /\ after # <<>> /\ Head(after) \in Separators
                THEN Tail(after) ELSE after
        item == CASE word \in Separators -> Number(0)
                  [] IsDigits(word) -> Number(NumberOf[word])
                  [] OTHER -> TextItem(word, rest = <<>>, after # <<>> /\ IsDigits(Head(after)))
    IN <<item>> \o Tokens(rest)

\* From the last item down: `end` is the last kept position of the current run
\* of one kind, `dropped` says that all behind it went.
RECURSIVE Kept(_, _, _, _, _)
Kept(items, i, run, end, dropped) ==
    IF i < 2 THEN {1} ELSE
    LET number == IsNumber(items[i])
        last == IF run # <<number>> THEN i ELSE end
        drop == /\ last = i
                /\ dropped \/ IsNumber(items[i - 1]) = number
                /\ CmpPadding(items[i]) = 0
    IN IF drop THEN Kept(items, i - 1, <<number>>, last - 1, dropped)
       ELSE {i} \cup Kept(items, i - 1, <<number>>, last, FALSE)

KeptAt(items) == Kept(items, Len(items), <<>>, 0, TRUE)

TrimPadding(items) ==
    IF items = <<>> THEN <<>>
    ELSE LET at == SetToSortSeq(KeptAt(items), <) IN [k \in 1..Len(at) |-> items[at[k]]]

ParseItems(text) == TrimPadding(Tokens(text))

-----------------------------------------------------------------------------
(* version.rs: order and hash                                              *)

CmpItem(a, b) == IF a = b THEN 0
                 ELSE IF a[1] < b[1] \/ (a[1] = b[1] /\ a[2] < b[2]) THEN -1 ELSE 1

\* The first item from `index` on, of the given kinds, that is not padding.
ComparePadding(items, index, kinds) ==
    LET differs == {i \in index..Len(items) : IsNumber(items[i]) \in kinds /\ CmpPadding(items[i]) # 0}
    IN IF differs = {} THEN 0 ELSE CmpPadding(items[CHOOSE i \in differs : \A j \in differs : i <= j])

RECURSIVE CmpFrom(_, _, _, _)
CmpFrom(a, b, i, number) ==
    CASE i > Len(a) /\ i > Len(b) -> 0
      [] i > Len(a) /\ i <= Len(b) -> - ComparePadding(b, i, BOOLEAN)
      [] i <= Len(a) /\ i > Len(b) -> ComparePadding(a, i, BOOLEAN)
      [] OTHER ->
           IF IsNumber(a[i]) # IsNumber(b[i])
           THEN IF IsNumber(a[i]) = number THEN ComparePadding(a, i, {number})
                ELSE - ComparePadding(b, i, {number})
           ELSE IF CmpItem(a[i], b[i]) # 0 THEN CmpItem(a[i], b[i])
           ELSE CmpFrom(a, b, i + 1, IsNumber(a[i]))


Cmp(a, b) == CmpFrom(a, b, 1, TRUE)

IsZero(items) ==
    \/ items # <<>> /\ ~IsNumber(items[1])
    \/ \A i \in 1..Len(items) : IsNumber(items[i]) => CmpPadding(items[i]) = 0

Hash(items) == IF IsZero(items) THEN <<>> ELSE items

\* How one written version compares with another.
CmpText(a, b) == Cmp(ParseItems(a), ParseItems(b))

RECURSIVE Merge(_, _)
Merge(left, right) ==
    IF left = <<>> THEN right
    ELSE IF right = <<>> THEN left
    ELSE IF CmpText(Head(right), Head(left)) < 0
    THEN <<Head(right)>> \o Merge(left, Tail(right))
    ELSE <<Head(left)>> \o Merge(Tail(left), right)

RECURSIVE SortVersions(_)
SortVersions(s) ==
    IF Len(s) < 2 THEN s
    ELSE LET half == Len(s) \div 2
         IN Merge(SortVersions(SubSeq(s, 1, half)), SortVersions(SubSeq(s, half + 1, Len(s))))

-----------------------------------------------------------------------------
(* range.rs: requirements. A version is a sequence of the symbols whose    *)
(* text VersionText gives; a bracket opened inside a range is text of it.  *)

VersionText == ("1" :> <<"1">>) @@ ("1.0" :> <<"1", ".", "0">>) @@ ("2" :> <<"2">>)
               @@ ("1.*" :> <<"1", ".", "*">>) @@ ("1.min" :> <<"1", ".", "min">>)
               @@ ("1.max" :> <<"1", ".", "max">>) @@ ("2-rc" :> <<"2", "-", "rc">>)
               @@ ("0" :> <<"0">>) @@ ("alpha" :> <<"alpha">>) @@ ("beta" :> <<"beta">>)
               @@ ("[" :> <<"[">>) @@ ("(" :> <<"(">>)
Wild == ("1.*" :> [lower |-> "1.min", upper |-> "1.max"])
ItemsOf(version) == ParseItems(FlattenSeq([i \in 1..Len(version) |-> VersionText[version[i]]]))
CmpVersion(a, b) == Cmp(ItemsOf(a), ItemsOf(b))

Opening == {"[", "("}
Closing == {"]", ")"}
Punctuation == Opening \cup Closing \cup {","}

Unbounded == <<>>

VersionRange(lower, upper, withLower, withUpper) ==
    [lower |-> lower, upper |-> upper, withLower |-> withLower, withUpper |-> withUpper]

\* One range, from its bracket to the first closing one.
ParseRange(text) ==
    LET inner == SubSeq(text, 2, Len(text) - 1)
        comma == SelectInSubSeq(inner, 1, Len(inner), LAMBDA x : x = ",")
        withLower == text[1] = "["
        withUpper == text[Len(text)] = "]"
        lower == SubSeq(inner, 1, comma - 1)
        upper == SubSeq(inner, comma + 1, Len(inner))
        Ending(symbol) == Front(inner) \o <<symbol>>
    IN IF "," \in ToSet(upper) THEN Error
       ELSE IF comma # 0
       THEN IF lower # Unbounded /\ upper # Unbounded /\ CmpVersion(lower, upper) > 0 THEN Error
            ELSE VersionRange(lower, upper, withLower, withUpper)
       ELSE IF inner = <<>> \/ ~withLower \/ ~withUpper THEN Error
       ELSE IF Last(inner) \in DOMAIN Wild
       THEN VersionRange(Ending(Wild[Last(inner)].lower), Ending(Wild[Last(inner)].upper), TRUE, TRUE)
       ELSE VersionRange(inner, inner, TRUE, TRUE)

\* The text up to the first closing bracket, then a comma unless it ends.
RECURSIVE SplitUnion(_)
SplitUnion(text) ==
    LET end == SelectInSubSeq(text, 1, Len(text), LAMBDA x : x \in Closing)
        rest == SubSeq(text, end + 1, Len(text))
    IN IF text = <<>> THEN <<>>
       ELSE IF text[1] \notin Opening \/ end = 0 THEN <<<<"?">>>>
       ELSE IF rest # <<>> /\ rest[1] # "," THEN <<<<"?">>>>
       ELSE <<SubSeq(text, 1, end)>> \o SplitUnion(IF rest = <<>> THEN rest ELSE Tail(rest))

IsExact(range) ==
    /\ range.lower # Unbounded /\ range.upper # Unbounded
    /\ CmpVersion(range.lower, range.upper) = 0
    /\ range.withLower /\ range.withUpper

ParseReq(text) ==
    IF text = <<>> THEN Error
    ELSE IF text[1] \notin Opening
    THEN IF ToSet(text) \cap Punctuation = {} THEN [kind |-> "soft", version |-> text] ELSE Error
    ELSE LET parts == SplitUnion(text)
             ranges == [i \in 1..Len(parts) |-> IF parts[i] = <<"?">> THEN Error ELSE ParseRange(parts[i])]
         IN IF \E i \in 1..Len(ranges) : ranges[i] = Error THEN Error
            ELSE IF Len(ranges) = 1 /\ "," \notin ToSet(parts[1]) /\ IsExact(ranges[1])
            THEN [kind |-> "exact", version |-> ranges[1].lower]
            ELSE [kind |-> "ranges", ranges |-> ranges]

DisplayRange(range) ==
    <<IF range.withLower THEN "[" ELSE "(">> \o range.lower \o <<",">>
    \o range.upper \o <<IF range.withUpper THEN "]" ELSE ")">>

DisplayReq(req) ==
    CASE req.kind = "exact" -> <<"[">> \o req.version \o <<"]">>
      [] req.kind = "soft" -> req.version
      [] OTHER -> FlattenSeq([i \in 1..Len(req.ranges) |->
                      (IF i > 1 THEN <<",">> ELSE <<>>) \o DisplayRange(req.ranges[i])])

InRange(range, version) ==
    /\ \/ range.lower = Unbounded
       \/ CmpVersion(version, range.lower) > 0
       \/ CmpVersion(version, range.lower) = 0 /\ range.withLower
    /\ \/ range.upper = Unbounded
       \/ CmpVersion(version, range.upper) < 0
       \/ CmpVersion(version, range.upper) = 0 /\ range.withUpper

MatchesReq(req, version) ==
    IF req.kind \in {"exact", "soft"} THEN CmpVersion(version, req.version) = 0
    ELSE \E i \in 1..Len(req.ranges) : InRange(req.ranges[i], version)

\* The version of a hard pin, <<>> for any other requirement.
ExactVersion(req) ==
    CASE req.kind = "exact" -> req.version
      [] req.kind = "ranges" /\ Len(req.ranges) = 1 /\ IsExact(req.ranges[1]) -> req.ranges[1].lower
      [] OTHER -> Unbounded

-----------------------------------------------------------------------------
(* snapshot.rs: a version is what precedes the stamp or word, whether it   *)
(* ends in a hyphen, and the stamp or word.                                *)

SnapshotVersion(prefix, hyphen, tail) == [prefix |-> prefix, hyphen |-> hyphen, tail |-> tail]
Builds == {"7", "07", "huge"}
StampTail(time, build) == [word |-> "stamp", time |-> time, build |-> build]
WordTail(word) == [word |-> word]

Timestamped(v) == v.tail.word = "stamp" /\ (v.hyphen \/ v.prefix = "")
EndsInSnapshot(v) == v.tail.word = "SNAPSHOT"
IsSnapshotVersion(v) == EndsInSnapshot(v) \/ Timestamped(v)

\* Maven's ArtifactUtils.isSnapshot: any case, and a hyphen before the stamp.
IsListedSnapshot(v) == v.tail.word \in {"SNAPSHOT", "snapshot"} \/ (v.tail.word = "stamp" /\ v.hyphen)

SnapshotBase(v) ==
    CASE Timestamped(v) -> [v EXCEPT !.tail = WordTail("SNAPSHOT")]
      [] EndsInSnapshot(v) -> v
      [] OTHER -> Error

\* The inverse of ResolvedVersion; a padded build would name another file.
StampOfFile(version, file) ==
    IF EndsInSnapshot(version) /\ file.tail.word = "stamp" /\ file.tail.build = "7"
       /\ file.prefix = version.prefix /\ file.hyphen = version.hyphen
    THEN [time |-> file.tail.time, build |-> file.tail.build]
    ELSE Error

ResolvedVersion(version, stamp) == [version EXCEPT !.tail = StampTail(stamp.time, stamp.build)]

-----------------------------------------------------------------------------
(* coord.rs: segments between colons; "$" is a version that does not parse *)

Segment(parts, i) == IF i <= Len(parts) /\ parts[i] # "" THEN parts[i] ELSE None
CoordOf(g, a, v, p, c) == [group |-> g, artifact |-> a, version |-> v, packaging |-> p, classifier |-> c]

ParseCoord(parts) ==
    IF \/ Len(parts) \notin 3..5
       \/ \E i \in 1..3 : parts[i] = ""
       \/ parts[Len(parts)] = ""
       \/ parts[3] = "$"
    THEN Error
    ELSE CoordOf(parts[1], parts[2], parts[3], Segment(parts, 4), Segment(parts, 5))

Written(field) == IF field = None THEN "" ELSE field

DisplayCoord(coord) ==
    <<coord.group, coord.artifact, coord.version>>
    \o IF coord.classifier # None THEN <<Written(coord.packaging), coord.classifier>>
       ELSE IF coord.packaging # None THEN <<coord.packaging>>
       ELSE <<>>

ParsePartial(parts) ==
    IF Len(parts) > 5 \/ parts[Len(parts)] = "" THEN Error
    ELSE IF Len(parts) = 1 THEN CoordOf(None, parts[1], None, None, None)
    ELSE IF parts[1] = "" \/ parts[2] = "" \/ Segment(parts, 3) = "$" THEN Error
    ELSE CoordOf(parts[1], parts[2], Segment(parts, 3), Segment(parts, 4), Segment(parts, 5))

DisplayPartial(coord) ==
    LET tail == coord.packaging # None \/ coord.classifier # None
    IN IF coord.group = None THEN <<coord.artifact>>
       ELSE <<coord.group, coord.artifact>>
            \o (IF coord.version # None \/ tail THEN <<Written(coord.version)>> ELSE <<>>)
            \o (IF tail THEN <<Written(coord.packaging)>> ELSE <<>>)
            \o (IF coord.classifier # None THEN <<coord.classifier>> ELSE <<>>)

PartialMatches(partial, coord) ==
    /\ partial.artifact = coord.artifact
    /\ \A field \in {"group", "version", "packaging", "classifier"} :
         partial[field] = None \/ partial[field] = coord[field]

-----------------------------------------------------------------------------
(* component.rs: a component is a sequence of character classes: letters   *)
(* "a", ".", a character of FORBIDDEN "/", another graphic one "+", a      *)
(* space " ", a control "^" and a letter outside ASCII "u".                *)

IdChars == {"a", "."}
GraphicChars == {"a", ".", "/", "+"}
UnsafeChars == {"^"}
MaxComponentBytes == 4

ValidComponent(field, value) ==
    /\ value # <<>> /\ Len(value) <= MaxComponentBytes
    /\ IF field \in {"group", "artifact"} THEN ToSet(value) \subseteq IdChars
       ELSE ToSet(value) \subseteq GraphicChars \ {"/"}
    /\ \A i \in 1..(Len(value) - 1) : ~(value[i] = "." /\ value[i + 1] = ".")
    /\ field = "group" => value[1] # "."
    /\ value[Len(value)] # "."

ValidReactorVersion(value) ==
    value # <<>> /\ Len(value) <= MaxComponentBytes /\ ToSet(value) \cap UnsafeChars = {}

\* layout.rs: the directories of a group, split at its dots.
RECURSIVE GroupDirectories(_)
GroupDirectories(group) ==
    LET dot == SelectInSubSeq(group, 1, Len(group), LAMBDA x : x = ".")
    IN IF dot = 0 THEN <<group>>
       ELSE <<SubSeq(group, 1, dot - 1)>> \o GroupDirectories(SubSeq(group, dot + 1, Len(group)))

-----------------------------------------------------------------------------
(* purl.rs: "" is empty, " " blank, "p" plain, "%" needs encoding          *)

Encoded(text) == IF text = "%" THEN "%25" ELSE text
Pair(key, value) == IF value = None THEN <<>> ELSE <<<<key, Encoded(value)>>>>
KeptPackaging(packaging) == IF packaging \in {"", "jar"} THEN None ELSE packaging

\* The keys in their order: "classifier" sorts before "type".
EncodedPurl(coord) ==
    <<Encoded(coord.group), Encoded(coord.artifact), Encoded(coord.version)>>
    \o Pair("classifier", coord.classifier) \o Pair("type", coord.packaging)

PlainPurl(coord) ==
    <<coord.group, coord.artifact, coord.version>>
    \o (IF coord.classifier = None THEN <<>> ELSE <<<<"classifier", coord.classifier>>>>)
    \o (IF coord.packaging = None THEN <<>> ELSE <<<<"type", coord.packaging>>>>)

MavenPurl(coord) ==
    LET kept == [coord EXCEPT !.packaging = KeptPackaging(@), !.classifier = IF @ = "" THEN None ELSE @]
        fields == {kept[f] : f \in DOMAIN kept}
    IN IF {kept.group, kept.artifact, kept.version} \cap {"", " "} # {} THEN Error
       ELSE IF fields \subseteq {"p", None} THEN PlainPurl(kept) ELSE EncodedPurl(kept)
====
