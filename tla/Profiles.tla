-------------------------------- MODULE Profiles --------------------------------
(***************************************************************************)
(* Interpolation and profiles.                                             *)
(*                                                                         *)
(* The interpolation of ${...} in a model's texts: rv-maven-model/src/     *)
(* properties.rs. A text is a sequence of pieces, each a literal symbol or *)
(* a reference whose key is a text again; names and values are sequences   *)
(* of symbols. A scope `s` holds the values by where they are looked up:   *)
(*   build    <build> fields and prerequisites, texts of the model         *)
(*   builtin  project.* and basedir, ahead of the properties               *)
(*   props    the property map, texts; `external` names those that came    *)
(*            from outside the POM                                         *)
(*   system   system properties and allowlisted environment variables      *)
(*   fields   the model's own fields without a prefix                      *)
(*                                                                         *)
(* The selection of a POM's profiles and the record of what it read from   *)
(* outside: rv-maven-model/src/activation.rs, environment.rs and           *)
(* project/profiles.rs. `c` is the build request, the same wherever the    *)
(* lock is used: declared POM properties, allowlist, platform, target JDK, *)
(* -P selections, base directory. `w` is what may differ between machines  *)
(* and runs: user, settings and launcher properties, JDK, environment and  *)
(* files.                                                                  *)
(***************************************************************************)
EXTENDS Versions

CONSTANTS MaxDepth,      \* MAX_INTERPOLATION_DEPTH
          MaxLength      \* MAX_INTERPOLATION_LENGTH, in symbols

Lit(symbol) == [lit |-> symbol]
Ref(key) == [ref |-> key]
IsRef(piece) == "ref" \in DOMAIN piece
Literal(symbols) == [i \in 1..Len(symbols) |-> Lit(symbols[i])]

\* The state of one interpolation; `out` is the text expanded so far at the
\* current level, `found` says whether the last lookup had a value.
NewWalk ==
    [path |-> <<>>, resolved |-> <<>>, external |-> 0, depth |-> 0, privateKey |-> FALSE,
     names |-> {}, public |-> {}, private |-> FALSE, detached |-> FALSE, below |-> {}, hidden |-> {}, err |-> "",
     out |-> <<>>, found |-> TRUE]

Fail(w, err) == [w EXCEPT !.err = err]
Value(w, value) == [w EXCEPT !.out = value, !.found = TRUE]
External(w, value) == [Value(w, value) EXCEPT !.external = @ + 1]
Unresolved(key) == <<"${">> \o key \o <<"}">>
Known(w) == DOMAIN w.resolved

\* The value of a property expanded earlier in the same interpolation.
Reused(w, key) ==
    [Value(w, w.resolved[key].value) EXCEPT !.external = @ + (IF w.resolved[key].external THEN 1 ELSE 0)]

Remember(w, key, value, external) ==
    [w EXCEPT !.resolved = (key :> [value |-> value, external |-> external]) @@ @]

Inside(w, key) == key \in {w.path[i] : i \in 1..Len(w.path)}

Leave(v, w) == [v EXCEPT !.path = w.path, !.depth = w.depth]

RECURSIVE Expand(_, _, _, _), Pieces(_, _, _, _, _), Resolve(_, _, _, _), Enter(_, _, _, _, _)

Expand(text, s, w, depth) ==
    IF depth >= MaxDepth THEN Fail(w, "depth") ELSE Pieces(text, s, w, depth, <<>>)

\* A key is private where it is read inside an outside value, or where an
\* outside value went into its text.
KeyPrivate(w, before) == w.depth > 0 \/ w.external # before

\* What is read below a private key goes to a record of its own.
MarkKey(w, private) ==
    [w EXCEPT !.privateKey = private, !.private = @ \/ private, !.detached = @ \/ private]

RestoreKey(v, w) == [v EXCEPT !.privateKey = w.privateKey, !.detached = w.detached]

Pieces(text, s, w, depth, out) ==
    IF text = <<>> THEN [w EXCEPT !.out = out]
    ELSE IF ~IsRef(Head(text)) THEN Pieces(Tail(text), s, w, depth, Append(out, Head(text).lit))
    ELSE LET whole(v, key) == out \o (IF v.found THEN v.out ELSE Unresolved(key))
             valued(v, key) ==
                CASE v.err # "" -> v
                  [] v.err = "" /\ Len(whole(v, key)) > MaxLength -> Fail(v, "length")
                  [] OTHER -> Pieces(Tail(text), s, RestoreKey(v, w), depth, whole(v, key))
             keyed(k) ==
                IF k.err # "" THEN k
                ELSE valued(Resolve(k.out, s, MarkKey(k, KeyPrivate(k, w.external)), depth + 1), k.out)
         IN keyed(Expand(Head(text).ref, s, w, depth + 1))

\* A property or build field: once per interpolation, refused inside itself.
Enter(key, text, s, w, depth) ==
    IF Inside(w, key) THEN Fail(w, "cycle")
    ELSE LET outside == IF key \in s.external THEN 1 ELSE 0
             entered == [w EXCEPT !.path = Append(@, key), !.external = @ + outside, !.depth = @ + outside]
             left(v) == IF v.err # "" THEN v
                        ELSE Remember(Value(Leave(v, w), v.out), key, v.out, v.external # w.external)
         IN left(Expand(text, s, entered, depth))

\* The names read, and those of them whose key the POM's author wrote.
Noted(w, key) ==
    [w EXCEPT !.names = @ \cup {key}, !.public = IF w.privateKey THEN @ ELSE @ \cup {key}]

\* A <build> field or <prerequisites>, expanded once; its value is not the
\* author's text any more.
ResolveBuild(key, s, w, depth) ==
    IF key \in Known(w) THEN External(w, w.resolved[key].value)
    ELSE LET built(v) == IF v.err # "" THEN v ELSE External(v, v.out)
         IN built(Enter(key, s.build[key], s, w, depth))

\* The names asked of the host.
AskedBelow(w, key) ==
    IF w.detached THEN [w EXCEPT !.hidden = @ \cup {key}] ELSE [w EXCEPT !.below = @ \cup {key}]

\* Below the properties: system properties and the environment, then fields.
ResolveBelow(key, s, w) ==
    CASE key \in DOMAIN s.system -> External(w, s.system[key])
      [] key \notin DOMAIN s.system /\ key \in DOMAIN s.fields -> External(w, s.fields[key])
      [] OTHER -> [w EXCEPT !.found = FALSE]

Resolve(key, s, w, depth) ==
    IF key \in DOMAIN s.build THEN ResolveBuild(key, s, w, depth)
    ELSE IF key \in DOMAIN s.builtin THEN External(w, s.builtin[key])
    ELSE LET n == Noted(w, key)
         IN IF key \notin DOMAIN s.props THEN ResolveBelow(key, s, AskedBelow(n, key))
            ELSE IF key \in Known(n) THEN Reused(n, key)
            ELSE Enter(key, s.props[key], s, n, depth)

Interpolate(text, s) == Expand(text, s, NewWalk, 0)

-----------------------------------------------------------------------------
(* What interpolation is to compute, without a memo: every reference       *)
(* replaced by the value of its key, in the context of the properties it   *)
(* is inside of.                                                           *)

RECURSIVE Substitute(_, _, _)
Substitute(text, s, inside) ==
    IF text = <<>> THEN [ok |-> TRUE, value |-> <<>>]
    ELSE LET rest == Substitute(Tail(text), s, inside)
             key == IF IsRef(Head(text)) THEN Substitute(Head(text).ref, s, inside)
                    ELSE [ok |-> TRUE, value |-> <<>>]
             within(t) == IF key.value \in inside THEN [ok |-> FALSE, value |-> <<>>]
                          ELSE Substitute(t, s, inside \cup {key.value})
             plain(v) == [ok |-> TRUE, value |-> v]
             value == IF ~IsRef(Head(text)) THEN plain(<<Head(text).lit>>)
                      ELSE IF ~key.ok THEN key
                      ELSE IF key.value \in DOMAIN s.build THEN within(s.build[key.value])
                      ELSE IF key.value \in DOMAIN s.builtin THEN plain(s.builtin[key.value])
                      ELSE IF key.value \in DOMAIN s.props THEN within(s.props[key.value])
                      ELSE IF key.value \in DOMAIN s.system THEN plain(s.system[key.value])
                      ELSE IF key.value \in DOMAIN s.fields THEN plain(s.fields[key.value])
                      ELSE plain(Unresolved(key.value))
         IN [ok |-> value.ok /\ rest.ok, value |-> value.value \o rest.value]

-----------------------------------------------------------------------------
(* Profiles                                                                *)


Absent == <<"<absent>">>
NoText == <<[absent |-> TRUE]>>
JavaVersion == <<"java">>
EnvName(variable) == <<"env", variable>>

Get(f, name) == IF name \in DOMAIN f THEN f[name] ELSE Absent

-----------------------------------------------------------------------------
(* What the host answers                                                   *)

\* A variable outside the allowlist reads as unset.
EnvVar(c, w, variable) == IF variable \in c.allowed THEN Get(w.env, variable) ELSE Absent

HostJava(c, w) == IF c.targetJdk # Absent THEN c.targetJdk ELSE w.java

Below(c, w) ==
    (JavaVersion :> HostJava(c, w))
    @@ [n \in {EnvName(v) : v \in DOMAIN w.env \cap c.allowed} |-> w.env[n[2]]]

LiteralValues(f) == [n \in DOMAIN f |-> Literal(f[n])]

\* The POM's own properties, then user, settings and system properties.
ActivationScope(c, w) ==
    [props |-> c.declared @@ LiteralValues(w.user) @@ LiteralValues(w.settings) @@ LiteralValues(w.system),
     external |-> (DOMAIN w.user \cup DOMAIN w.settings \cup DOMAIN w.system) \ DOMAIN c.declared,
     build |-> <<>>, builtin |-> <<>>, system |-> Below(c, w), fields |-> <<>>]

\* A property as an activator reads it.
PropertyValue(c, w, name) ==
    IF name \in DOMAIN w.user THEN w.user[name]
    ELSE IF name \in DOMAIN w.settings THEN w.settings[name]
    ELSE IF name \in DOMAIN w.system THEN w.system[name]
    ELSE IF name = JavaVersion THEN HostJava(c, w)
    ELSE IF name[1] = "env" THEN EnvVar(c, w, name[2])
    ELSE Absent

-----------------------------------------------------------------------------
(* Conditions                                                              *)

\* One leading "!" counts.
Negated(text) == text # <<>> /\ text[1] = "!"
Stripped(text) == IF Negated(text) THEN Tail(text) ELSE text
StartsWith(text, prefix) == Len(prefix) <= Len(text) /\ SubSeq(text, 1, Len(prefix)) = prefix

PropertyMatches(name, value, actual) ==
    IF value # Absent /\ value # <<>>
    THEN (actual = Stripped(value)) # Negated(value)
    ELSE (actual # Absent /\ actual # <<>>) # Negated(name)

RECURSIVE SplitAt(_, _)
SplitAt(text, symbol) ==
    LET at == SelectInSubSeq(text, 1, Len(text), LAMBDA x : x = symbol)
    IN IF at = 0 THEN <<text>>
       ELSE <<SubSeq(text, 1, at - 1)>> \o SplitAt(SubSeq(text, at + 1, Len(text)), symbol)

\* Java's split: no empty pieces at the end.
RECURSIVE DropEmptyTail(_)
DropEmptyTail(pieces) ==
    IF pieces # <<>> /\ pieces[Len(pieces)] = <<>> THEN DropEmptyTail(Front(pieces)) ELSE pieces
JavaSplit(text, symbol) == IF text = <<>> THEN <<text>> ELSE DropEmptyTail(SplitAt(text, symbol))

Without(text, symbol) == SelectSeq(text, LAMBDA x : x # symbol)
JdkBoundOf(piece) ==
    IF piece = <<>> THEN [value |-> <<>>, closed |-> FALSE]
    ELSE IF piece[1] \in Opening THEN [value |-> Without(piece, piece[1]), closed |-> piece[1] = "["]
    ELSE [value |-> Without(piece, piece[Len(piece)]), closed |-> piece[Len(piece)] = "]"]
IsBound(piece) == piece = <<>> \/ piece[1] \in Opening \/ piece[Len(piece)] \in Closing

Component(parts, i) == IF i <= Len(parts) /\ parts[i] # <<>> THEN parts[i][1] ELSE "0"
\* "less", "equal", "greater", or "bad" where a component is no number.
JdkRelation(actual, bound, left) ==
    LET have == JavaSplit(actual, ".")
        want == JavaSplit(bound.value, ".")
        compared == {i \in 1..3 : \A j \in 1..(i - 1) : Component(have, j) = Component(want, j)}
        last == CHOOSE i \in compared : \A j \in compared : j <= i
        a == Component(have, last)
        b == Component(want, last)
    IN IF bound.value = <<>> THEN IF left THEN "greater" ELSE "less"
       ELSE IF \E i \in 1..Len(want) : Len(want[i]) > 1 \/ (want[i] # <<>> /\ ~IsDigits(want[i][1])) THEN "bad"
       ELSE IF a # b THEN IF NumberOf[a] < NumberOf[b] THEN "less" ELSE "greater"
       ELSE IF bound.closed THEN "equal" ELSE IF left THEN "less" ELSE "greater"

\* Pieces by their brackets; one bound alone gets an upper one above all.
JdkInRange(range, actual) ==
    LET given == SelectSeq(JavaSplit(range, ","), IsBound)
        bounds == [i \in 1..Len(given) |-> JdkBoundOf(given[i])]
        lower == JdkRelation(actual, bounds[1], TRUE)
    IN CASE lower = "equal" -> TRUE
         [] lower = "greater" -> Len(bounds) = 1 \/ JdkRelation(actual, bounds[2], FALSE) \in {"less", "equal"}
         [] OTHER -> FALSE

JdkMatches(req, found) ==
    IF Negated(req) THEN ~StartsWith(found, Tail(req))
    ELSE IF req # <<>> /\ req[1] \in Opening THEN JdkInRange(req, found)
    ELSE StartsWith(found, req)

-----------------------------------------------------------------------------
(* What a selection read                                                   *)

Input(kind, name, value, text, fromHost) ==
    [kind |-> kind, name |-> name, value |-> value, text |-> text, fromHost |-> fromHost]
Named(kind, name) == Input(kind, name, Absent, NoText, FALSE)
Lookup(kind, text, fromHost) == Input(kind, <<>>, Absent, text, fromHost)

IsHostRead(input) == input.kind \in {"user", "userLookup", "lookup"} => input.fromHost
IsJavaRead(input) == \/ input.kind \in {"java", "jdk"}
                     \/ input.kind = "property" /\ Stripped(input.name) = JavaVersion

\* A target JDK answers for the host's, so reads of it are not the host's.
Recorded(c, inputs) == IF c.targetJdk = Absent THEN inputs ELSE {i \in inputs : ~IsJavaRead(i)}

\* A host value of that name as interpolation reads it below the properties.
HostInputsOf(c, name) ==
    IF name = JavaVersion THEN {Named("java", JavaVersion)}
    ELSE IF name[1] = "env" /\ name[2] \in c.allowed THEN {Named("env", name)}
    ELSE {}

HostReadsOf(c, names) == Recorded(c, UNION {HostInputsOf(c, n) : n \in names})

\* record_inputs and the expansion's own reads: a name the author wrote is
\* recorded, one an outside value made is kept as the expression, with a
\* mark where it made one of the host's.
TextReads(c, w, text, walk) ==
    LET names == walk.public \ DOMAIN c.declared
        settings == (names \cap c.settingsNames) \ DOMAIN w.user
    IN {Named("user", n) : n \in names} \cup {Named("settings", n) : n \in settings}
       \cup HostReadsOf(c, walk.below)
       \cup (IF walk.private THEN {Lookup("lookup", text, HostReadsOf(c, walk.hidden) # {})} ELSE {})

\* Whether the expansion read a host value.
Probed(reads) == \E r \in reads : IsHostRead(r)

\* Whether a user or host value may be part of the expanded text.
FromInput(c, w, walk, reads) ==
    Probed(reads) \/ (walk.public \ DOMAIN c.declared) \cap (DOMAIN w.user \cup DOMAIN w.system) # {}

\* A condition's text: what it expands to, what that read, and whether a
\* value from outside went into it.
Expansion(c, w, text) ==
    LET told(walk, reads) == [text |-> text, out |-> walk.out, reads |-> reads, fromInput |-> FromInput(c, w, walk, reads)]
        under(walk) == told(walk, TextReads(c, w, text, walk))
    IN IF text = NoText THEN [text |-> NoText, out |-> Absent, reads |-> {}, fromInput |-> FALSE]
       ELSE under(Interpolate(text, ActivationScope(c, w)))

-----------------------------------------------------------------------------
(* Each condition: whether it holds and what it read                       *)

Tested(holds, reads) == [holds |-> holds, reads |-> reads, ok |-> TRUE]

OsActive(c, w, os) ==
    LET actual == IF <<"os">> \in DOMAIN w.user THEN w.user[<<"os">>]
                  ELSE IF <<"os">> \in DOMAIN w.system THEN w.system[<<"os">>] ELSE c.os
    IN Tested((actual = Stripped(os.out)) # Negated(os.out), os.reads \cup {Named("user", <<"os">>)})

\* A written path is aligned to the project directory; without one only an
\* absolute path is tested.
Align(c, path) == IF c.base = Absent \/ StartsWith(path, <<"/">>) THEN path ELSE c.base \o path
PathOf(c, e) == IF e.text = NoText THEN <<>> ELSE Align(c, e.out)

\* Where the path tested may hold an outside value, the expression is kept
\* in its place; what emptied an untested <exists> was read too.
FileReads(exists, absent, e, path) ==
    (IF e.text = absent.text THEN exists.reads ELSE {})
    \cup (IF path # <<>> /\ e.fromInput
          THEN {r \in e.reads : r.kind # "lookup"} \cup {Lookup("fileLookup", e.text, TRUE)}
          ELSE e.reads \cup (IF StartsWith(path, <<"/">>) THEN {Named("file", path)} ELSE {}))

\* <missing> is tested where <exists> is empty.
FileActive(c, w, exists, absent) ==
    LET missing == PathOf(c, exists) = <<>>
        e == IF missing THEN absent ELSE exists
        path == PathOf(c, e)
    IN Tested(StartsWith(path, <<"/">>) /\ (path \in w.files) # missing, FileReads(exists, absent, e, path))

\* The host version where the text may hold a value from outside.
JdkRead(jdk) == IF jdk.fromInput THEN Named("java", JavaVersion) ELSE Named("jdk", jdk.out)

JdkActive(c, w, jdk) ==
    LET set == JavaVersion \in DOMAIN w.user \cup DOMAIN w.system
        found == IF JavaVersion \in DOMAIN w.user THEN w.user[JavaVersion] ELSE Get(w.system, JavaVersion)
        reads == jdk.reads \cup {Named("user", JavaVersion)}
    IN IF set THEN Tested(found # <<>> /\ JdkMatches(jdk.out, found), reads)
       ELSE IF jdk.out = <<>> THEN Tested(TRUE, reads)
       ELSE Tested(JdkMatches(jdk.out, HostJava(c, w)), reads \cup {JdkRead(jdk)})

\* A name that holds an outside value is kept as the expression alone.
PropertyReads(c, w, name, value) ==
    LET named == Stripped(name.out)
        below == named \notin DOMAIN w.user \cup DOMAIN w.settings \cup DOMAIN w.system
    IN value.reads \cup
       IF name.fromInput THEN {Lookup("userLookup", name.text, Probed(name.reads))}
       ELSE name.reads
            \cup {Named("user", named)}
            \cup (IF named \in c.settingsNames \ DOMAIN w.user THEN {Named("settings", named)} ELSE {})
            \cup (IF below /\ HostInputsOf(c, named) # {}
                  THEN IF value.fromInput THEN HostInputsOf(c, named) ELSE {Input("property", name.out, value.out, NoText, FALSE)}
                  ELSE {})

PropertyActive(c, w, name, value) ==
    IF name.text = NoText \/ Stripped(name.out) = <<>> THEN [Tested(FALSE, {}) EXCEPT !.ok = FALSE]
    ELSE Tested(PropertyMatches(name.out, value.out, PropertyValue(c, w, Stripped(name.out))),
                PropertyReads(c, w, name, value))

-----------------------------------------------------------------------------
(* A profile's explicit conditions, then a POM's profiles                  *)

Conditions(c, w, a) ==
    LET of == [field \in {"os", "exists", "missing", "jdk", "name", "value"} |-> Expansion(c, w, a[field])]
        tested(e) ==
            (IF a.os # NoText THEN <<OsActive(c, w, e.os)>> ELSE <<>>)
            \o (IF a.exists # NoText \/ a.missing # NoText THEN <<FileActive(c, w, e.exists, e.missing)>> ELSE <<>>)
            \o (IF a.jdk # NoText THEN <<JdkActive(c, w, e.jdk)>> ELSE <<>>)
            \o (IF a.name # NoText \/ a.value # NoText THEN <<PropertyActive(c, w, e.name, e.value)>> ELSE <<>>)
    IN tested(of)

\* Mutant: only the conditions that hold keep their reads.
KeptConditionsHolding(tested) == {i \in 1..Len(tested) : \A j \in 1..i : tested[j].holds}

\* The reads up to the first condition that does not hold decide it.
KeptConditions(tested) == {i \in 1..Len(tested) : \A j \in 1..(i - 1) : tested[j].holds}

ExplicitConditionsActive(c, w, a) ==
    LET outcome(tested) == [holds |-> tested # <<>> /\ \A i \in 1..Len(tested) : tested[i].holds,
            ok |-> \A i \in 1..Len(tested) : tested[i].ok,
            reads |-> Recorded(c, UNION {tested[i].reads : i \in KeptConditions(tested)})]
    IN outcome(Conditions(c, w, a))

\* -P! takes a profile out unread, -P puts it in unread.
EvaluateProfile(c, w, p) ==
    IF p.id \in c.inactive \cup c.active
    THEN [holds |-> p.id \notin c.inactive, ok |-> TRUE, reads |-> {}]
    ELSE ExplicitConditionsActive(c, w, p.activation)

SelectProfiles(c, w, profiles) ==
    LET all == 1..Len(profiles)
        defaults == {i \in all : profiles[i].byDefault /\ profiles[i].id \notin c.inactive}
        activated(each) == {i \in all : each[i].holds}
        selection(each) == [ok |-> \A i \in all : each[i].ok,
                            active |-> IF activated(each) = {} THEN defaults ELSE activated(each),
                            reads |-> [i \in all |-> each[i].reads]]
    IN selection([i \in all |-> EvaluateProfile(c, w, profiles[i])])

\* A default profile is decided by every condition of its POM.
HostDecides(selection, profiles, i) ==
    \/ \E r \in selection.reads[i] : IsHostRead(r)
    \/ profiles[i].byDefault /\ \E j \in DOMAIN selection.reads : \E r \in selection.reads[j] : IsHostRead(r)

\* The active profiles a model lists: without those a host value decides and
\* that cannot change resolution.
ListedProfiles(selection, profiles) ==
    {i \in selection.active : profiles[i].relevant \/ ~HostDecides(selection, profiles, i)}

\* What a model build counts as read: the reads of relevant profiles, and all
\* of them where a relevant default profile depends on the others' outcome.
CountedReads(selection, profiles) ==
    LET all == DOMAIN selection.reads
        defaultRelevant == \E i \in all : profiles[i].relevant /\ profiles[i].byDefault
    IN UNION {selection.reads[i] : i \in {j \in all : profiles[j].relevant \/ defaultRelevant}}

\* What a recorded input is compared by: conditions by their outcome.
Observed(c, w, input) ==
    CASE input.kind = "user" -> IF input.name \in DOMAIN w.user THEN w.user[input.name] ELSE Get(w.system, input.name)
      [] input.kind = "settings" -> Get(w.settings, input.name)
      [] input.kind = "java" -> w.java
      [] input.kind = "env" -> EnvVar(c, w, input.name[2])
      [] input.kind = "jdk" -> <<JdkMatches(input.name, w.java)>>
      [] input.kind = "property" ->
            <<PropertyMatches(input.name, input.value,
                IF Stripped(input.name) = JavaVersion THEN w.java ELSE EnvVar(c, w, Stripped(input.name)[2]))>>
      [] input.kind = "file" -> <<input.name \in w.files>>
      [] input.kind = "lookup" -> Expansion(c, w, input.text).out
      [] input.kind = "userLookup" ->
            <<Expansion(c, w, input.text).out, PropertyValue(c, w, Stripped(Expansion(c, w, input.text).out))>>
      [] input.kind = "fileLookup" ->
            <<Align(c, Expansion(c, w, input.text).out), Align(c, Expansion(c, w, input.text).out) \in w.files>>
=============================================================================
