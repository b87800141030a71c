------------------------------- MODULE Masking -------------------------------
(***************************************************************************)
(* common.MaskSensitiveInfo (src/common/str.go, lines 120-237): the mask   *)
(* applied to free-text error messages before they are logged. It makes    *)
(* three passes over the text, each on the output of the one before: URLs  *)
(* (regexp match, url.Parse, masked host, path and query), then plain      *)
(* domain names, then IPv4 addresses.                                      *)
(*                                                                         *)
(* A text is a sequence of tokens: a URL scheme with its "://", a label    *)
(* (a maximal run of letters and digits: what \b and the label classes of *)
(* the regexps see, abstracted to its length and its character class), or *)
(* a punctuation mark. Each label also carries the role it has in the text *)
(* (a host label, a path segment, a query value...), which the code never *)
(* reads and the properties use to say what must not survive.             *)
(***************************************************************************)
EXTENDS Integers, Sequences, SequencesExt

CONSTANTS
    Labels,  \* the labels texts are made of: [w, n, c, role]
    Inputs   \* the texts MaskSensitiveInfo is called with

P(s) == [k |-> s]
Dot == P(".")
Slash == P("/")
Qm == P("?")
Eq == P("=")
Amp == P("&")
Sp == P(" ")
At == P("@")
Pct == P("%")       \* a "%" not followed by two hex digits
Stars == P("***")
Scheme(s) == [k |-> "scheme", s |-> s]

Token == {Dot, Slash, Qm, Eq, Amp, Sp, At, Pct, Stars,
          Scheme("http"), Scheme("https")} \cup Labels

IsLabel(x) == x.k = "lab"

\* len() of the text of a token.
TokLen(x) ==
    CASE IsLabel(x)        -> x.n
      [] x = Stars         -> 3
      [] x.k = "scheme"    -> IF x.s = "http" THEN 7 ELSE 8
      [] OTHER             -> 1

PartLen(p) == FoldLeft(LAMBDA a, x : a + TokLen(x), 0, p)

\* strings.Split(s, sep) for a one-token separator.
SplitOn(s, sep) ==
    LET cuts == <<0>> \o SetToSortSeq({x \in 1..Len(s) : s[x] = sep}, <)
                      \o <<Len(s) + 1>>
    IN  [k \in 1..(Len(cuts) - 1) |-> SubSeq(s, cuts[k] + 1, cuts[k + 1] - 1)]

\* strings.Join(parts, sep).
JoinWith(parts, sep) ==
    FlattenSeq([k \in DOMAIN parts |->
                   IF k = 1 THEN parts[k] ELSE <<sep>> \o parts[k]])

\* strings.Trim(s, "/").
TrimSlashes(s) ==
    LET keep == {x \in 1..Len(s) : s[x] # Slash} IN
    IF keep = {} THEN <<>> ELSE SubSeq(s, Min(keep), Max(keep))

\* The first position of a token of set S in s at or after j, or 0.
FirstOf(s, S, j) ==
    LET I == {x \in j..Len(s) : s[x] \in S} IN IF I = {} THEN 0 ELSE Min(I)
-----------------------------------------------------------------------------
\* Mutant: three parts kept for a likely country-code TLD.
MaskHostTailKeepsThree(parts) ==
    IF Len(parts) < 2 THEN parts
    ELSE IF /\ PartLen(parts[Len(parts)]) = 2
            /\ PartLen(parts[Len(parts) - 1]) <= 3
         THEN SubSeq(parts, IF Len(parts) > 2 THEN Len(parts) - 2 ELSE 1, Len(parts))
         ELSE <<parts[Len(parts)]>>

(***************************************************************************)
(* maskHostTail (lines 120-133): the last two parts when the last has two  *)
(* characters and the one before at most three (co.uk, com.cn), otherwise *)
(* the last part only.                                                     *)
(***************************************************************************)
MaskHostTail(parts) ==
    IF Len(parts) < 2 THEN parts
    ELSE IF /\ PartLen(parts[Len(parts)]) = 2
            /\ PartLen(parts[Len(parts) - 1]) <= 3
         THEN SubSeq(parts, Len(parts) - 1, Len(parts))
         ELSE <<parts[Len(parts)]>>

\* maskHostForURL (lines 135-144): "***." and the kept tail.
MaskHostForURL(host) ==
    LET parts == SplitOn(host, Dot) IN
    IF Len(parts) < 2 THEN <<Stars>>
    ELSE <<Stars, Dot>> \o JoinWith(MaskHostTail(parts), Dot)

\* maskHostForPlainDomain (lines 146-160): one "***" per hidden part.
MaskHostForPlainDomain(domain) ==
    LET parts == SplitOn(domain, Dot)
        tail == MaskHostTail(parts)
        numStars == IF Len(parts) - Len(tail) < 1 THEN 1 ELSE Len(parts) - Len(tail)
    IN  IF Len(parts) < 2 THEN domain
        ELSE JoinWith([x \in 1..numStars |-> <<Stars>>], Dot) \o <<Dot>>
               \o JoinWith(tail, Dot)
-----------------------------------------------------------------------------
(***************************************************************************)
(* The URL pass (lines 173-224).                                           *)
(***************************************************************************)

(***************************************************************************)
(* `(http|https)://[^\s/$.?#].[^\s]*` matched at position j: the end of   *)
(* the match, or 0. The first character after "://" must not be a space,   *)
(* "/", "." or "?"; the next one may be anything, a space included; then   *)
(* the match runs to the next space.                                       *)
(***************************************************************************)
UrlMatchEnd(t, j) ==
    IF /\ t[j].k = "scheme"
       /\ j + 1 <= Len(t)
       /\ t[j + 1] \notin {Sp, Slash, Dot, Qm}
       /\ TokLen(t[j + 1]) >= 2 \/ j + 2 <= Len(t)
    THEN LET from == IF TokLen(t[j + 1]) >= 2 THEN j + 2 ELSE j + 3
             sp == FirstOf(t, {Sp}, from)
         IN  IF sp = 0 THEN Len(t) ELSE sp - 1
    ELSE 0

(***************************************************************************)
(* Lines 190-204: every non-empty segment of the path, trimmed of its     *)
(* slashes, becomes "***"; a path "/" stays "/".                           *)
(***************************************************************************)
MaskPath(path) ==
    IF path = <<>> THEN <<>>
    ELSE IF path = <<Slash>> THEN <<Slash>>
    ELSE LET segs == SplitOn(TrimSlashes(path), Slash) IN
         <<Slash>> \o JoinWith([x \in DOMAIN segs |->
                                   IF segs[x] = <<>> THEN <<>> ELSE <<Stars>>],
                               Slash)

\* Mutant: the raw query written back when url.ParseQuery fails.
MaskQueryRawOnError(q) ==
    IF q = <<>> THEN {<<>>}
    ELSE IF Pct \in ToSet(q) THEN {<<Qm>> \o q}
    ELSE LET pieces == SplitOn(q, Amp)
             Key(p) == IF Eq \in ToSet(p) THEN SubSeq(p, 1, FirstOf(p, {Eq}, 1) - 1)
                       ELSE p
             keys == {Key(pieces[x]) : x \in {y \in DOMAIN pieces : pieces[y] # <<>>}}
         IN  IF keys = {} THEN {<<>>}
             ELSE {<<Qm>> \o JoinWith([x \in DOMAIN o |-> o[x] \o <<Eq, Stars>>], Amp) :
                      o \in SetToSeqs(keys)}

(***************************************************************************)
(* Lines 206-221: url.ParseQuery fails on a bad escape, and the query      *)
(* becomes "?***"; otherwise each distinct key (the text of a non-empty   *)
(* piece before its first "=") is written as key=***, in the iteration    *)
(* order of a Go map, which is any order.                                  *)
(***************************************************************************)
MaskQuery(q) ==
    IF q = <<>> THEN {<<>>}
    ELSE IF Pct \in ToSet(q) THEN {<<Qm, Stars>>}
    ELSE LET pieces == SplitOn(q, Amp)
             Key(p) == IF Eq \in ToSet(p) THEN SubSeq(p, 1, FirstOf(p, {Eq}, 1) - 1)
                       ELSE p
             keys == {Key(pieces[x]) : x \in {y \in DOMAIN pieces : pieces[y] # <<>>}}
         IN  IF keys = {} THEN {<<>>}
             ELSE {<<Qm>> \o JoinWith([x \in DOMAIN o |-> o[x] \o <<Eq, Stars>>], Amp) :
                      o \in SetToSeqs(keys)}

(***************************************************************************)
(* The closure of lines 174-224 on one matched URL u. url.Parse splits it  *)
(* into the authority (up to the first "/" or "?"), whose host follows the *)
(* last "@", the path and the raw query; it fails on a space in the host   *)
(* or a bad escape in the host or the path, and the URL is then returned   *)
(* as it is, as it is when the host is empty.                              *)
(***************************************************************************)
MaskURL(u) ==
    LET rest == Tail(u)
        ae == FirstOf(rest, {Slash, Qm}, 1)
        authority == IF ae = 0 THEN rest ELSE SubSeq(rest, 1, ae - 1)
        qi == FirstOf(rest, {Qm}, 1)
        path == IF ae = 0 \/ ae = qi THEN <<>>
                ELSE SubSeq(rest, ae, IF qi = 0 THEN Len(rest) ELSE qi - 1)
        query == IF qi = 0 THEN <<>> ELSE SubSeq(rest, qi + 1, Len(rest))
        lastAt == SelectLastInSeq(authority, LAMBDA x : x = At)
        host == SubSeq(authority, lastAt + 1, Len(authority))
        parsed == /\ {Sp, Pct} \cap ToSet(authority) = {}
                  /\ Pct \notin ToSet(path)
    IN  IF ~parsed \/ host = <<>> THEN {u}
        ELSE {<<u[1]>> \o MaskHostForURL(host) \o MaskPath(path) \o q :
                 q \in MaskQuery(query)}

\* urlPattern.ReplaceAllStringFunc: every match, left to right.
RECURSIVE ReplaceURLs(_, _)
ReplaceURLs(t, j) ==
    IF j > Len(t) THEN {<<>>}
    ELSE LET e == UrlMatchEnd(t, j) IN
         IF e = 0 THEN {<<t[j]>> \o r : r \in ReplaceURLs(t, j + 1)}
         ELSE {m \o r : m \in MaskURL(SubSeq(t, j, e)), r \in ReplaceURLs(t, e + 1)}
-----------------------------------------------------------------------------
(***************************************************************************)
(* The domain pass (lines 226-230): `\b(?:label\.)+[a-zA-Z]{2,}\b` at a    *)
(* label with a word boundary before it takes the longest chain of labels  *)
(* joined by dots that ends in a label of two or more letters.             *)
(***************************************************************************)
Chain(t, j, e) ==
    \A x \in j..e : IF (x - j) % 2 = 0 THEN IsLabel(t[x]) ELSE t[x] = Dot

DomainMatchEnd(t, j) ==
    IF IsLabel(t[j]) /\ (j = 1 \/ ~IsLabel(t[j - 1]))
    THEN LET ends == {e \in (j + 2)..Len(t) :
                         /\ (e - j) % 2 = 0
                         /\ Chain(t, j, e)
                         /\ t[e].c = "alpha"
                         /\ t[e].n >= 2}
         IN  IF ends = {} THEN 0 ELSE Max(ends)
    ELSE 0

RECURSIVE ReplaceDomains(_, _)
ReplaceDomains(t, j) ==
    IF j > Len(t) THEN <<>>
    ELSE LET e == DomainMatchEnd(t, j) IN
         IF e = 0 THEN <<t[j]>> \o ReplaceDomains(t, j + 1)
         ELSE MaskHostForPlainDomain(SubSeq(t, j, e)) \o ReplaceDomains(t, e + 1)

(***************************************************************************)
(* The IPv4 pass (lines 232-234): `\b(?:\d{1,3}\.){3}\d{1,3}\b` becomes    *)
(* "***.***.***.***".                                                      *)
(***************************************************************************)
IsOctet(x) == IsLabel(x) /\ x.c = "digit" /\ x.n <= 3

IPMatch(t, j) ==
    /\ j + 6 <= Len(t)
    /\ j = 1 \/ ~IsLabel(t[j - 1])
    /\ \A m \in 0..3 : IsOctet(t[j + 2 * m])
    /\ \A m \in 0..2 : t[j + 2 * m + 1] = Dot

RECURSIVE ReplaceIPs(_, _)
ReplaceIPs(t, j) ==
    IF j > Len(t) THEN <<>>
    ELSE IF IPMatch(t, j)
         THEN <<Stars, Dot, Stars, Dot, Stars, Dot, Stars>> \o ReplaceIPs(t, j + 7)
         ELSE <<t[j]>> \o ReplaceIPs(t, j + 1)
-----------------------------------------------------------------------------
VARIABLES
    input,   \* the text MaskSensitiveInfo was called with
    output,  \* the text it returned
    done     \* it has returned

vars == <<input, output, done>>

TypeOK ==
    /\ input \in Seq(Token)
    /\ output \in Seq(Token)
    /\ done \in BOOLEAN

Init ==
    /\ input \in Inputs
    /\ output = input
    /\ done = FALSE

\* MaskSensitiveInfo (lines 171-237): the three passes in order.
MaskSensitiveInfo ==
    /\ ~done
    /\ \E u \in ReplaceURLs(input, 1) :
          output' = ReplaceIPs(ReplaceDomains(u, 1), 1)
    /\ done' = TRUE
    /\ UNCHANGED input

Next == MaskSensitiveInfo

Spec == Init /\ [][Next]_vars
-----------------------------------------------------------------------------
(***************************************************************************)
(* Properties. Shown(r) is the set of labels of role r the output shows.  *)
(***************************************************************************)
Shown(roles) == {x \in ToSet(output) : IsLabel(x) /\ x.role \in roles}

\* Spec 4.6: the mask redacts path components and query values, and the
\* user information before the host (the url.Parse path, lines 174-224).
URLPartsRedacted == done => Shown({"path", "qval", "cred"}) = {}

\* The host of a URL or a plain domain shows at most its last two labels
\* (maskHostTail); every label left of those is redacted, whichever pass
\* reaches it first.
SubdomainsRedacted == done => Shown({"sub"}) = {}

\* Spec 4.6: a host is redacted and only its TLD retained. maskHostTail
\* keeps a two-letter TLD and a label of at most three characters before it
\* (line 128), which is the whole of a name like bit.ly.
HostRedacted == done => Shown({"host"}) = {}

\* Spec 4.6: the mask redacts the local part of an e-mail address.
\* MaskSensitiveInfo has no e-mail pass: the domain pass stops at "@".
EmailLocalPartRedacted == done => Shown({"local"}) = {}
=============================================================================
