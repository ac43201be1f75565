-------------------------------- MODULE Text --------------------------------
(***************************************************************************)
(* The conversions of texts: lists in configuration files are split, and   *)
(* what clients and back ends say to each other is a map of parameters in  *)
(* the form of a URL (trpc_comm_func.cpp, trpc_url_param_map.cpp).         *)
(*                                                                         *)
(* A text is a sequence of symbols: characters that matter here, and words *)
(* without any of them.                                                    *)
(***************************************************************************)
EXTENDS Integers, Sequences, FiniteSets, SequencesExt

Least(S) == CHOOSE x \in S : \A y \in S : x <= y

(* -------------------------------- split --------------------------------- *)

Trimmed(s) ==
    LET solid == {i \in DOMAIN s : s[i] # " "} IN
    IF solid = {} THEN <<>>
    ELSE SubSeq(s, Least(solid), CHOOSE i \in solid : \A j \in solid : j <= i)

(* At most max cuts, so that what is left has its delimiters; a last piece that is
   empty does not count.                                                     *)
split(s, delimiter, max) ==
    LET dels   == SetToSortSeq({i \in DOMAIN s : s[i] = delimiter}, <)
        cuts   == <<0>> \o SubSeq(dels, 1, IF Len(dels) < max THEN Len(dels) ELSE max)
        pieces == [n \in DOMAIN cuts |->
                      Trimmed(SubSeq(s, cuts[n] + 1, IF n < Len(cuts) THEN cuts[n + 1] - 1 ELSE Len(s)))]
    IN IF Last(pieces) = <<>> THEN Front(pieces) ELSE pieces

(* -------------------------------- numbers ------------------------------- *)

Digits == <<"0", "1", "2", "3", "4", "5", "6", "7", "8", "9">>
IsDigit(c)  == \E n \in DOMAIN Digits : Digits[n] = c

(* The digits it begins with; nought if none. *)
atoi(s) ==
    FoldLeft(LAMBDA got, c :
                IF got.on /\ IsDigit(c)
                THEN [got EXCEPT !.n = 10 * @ + (CHOOSE n \in DOMAIN Digits : Digits[n] = c) - 1]
                ELSE [got EXCEPT !.on = FALSE],
             [n |-> 0, on |-> TRUE], s).n

(* ------------------------------- parameters ----------------------------- *)

(* The two digits of the characters that matter. *)
Code(c) == CASE c = "%" -> <<"2", "5">> [] c = "&" -> <<"2", "6">> [] c = "=" -> <<"3", "d">>
             [] c = "2" -> <<"3", "2">> [] c = "6" -> <<"3", "6">>
Coded == {"%", "&", "=", "2", "6"}

(* The rest of the table is for characters that nobody looks at. *)
encodeUrl(s) ==
    FlattenSeq([i \in DOMAIN s |->
        IF s[i] \in {"%", "&", "="} THEN <<"%">> \o Code(s[i]) ELSE <<s[i]>>])

(* Any other character is one that nobody looks at. *)
hextochar(c1, c2) ==
    IF \E c \in Coded : Code(c) = <<c1, c2>> THEN CHOOSE c \in Coded : Code(c) = <<c1, c2>>
    ELSE "other"

(* Mutation: a percent sign needs two more characters after those that follow. *)
decodeUrl_Early(s) ==
    FoldLeftDomain(LAMBDA got, i :
        IF got.skip > 0 THEN [got EXCEPT !.skip = @ - 1]
        ELSE IF s[i] = "%" /\ Len(s) - i > 2
             THEN [text |-> Append(got.text, hextochar(s[i + 1], s[i + 2])), skip |-> 2]
             ELSE [got EXCEPT !.text = Append(@, s[i])],
        [text |-> <<>>, skip |-> 0], s).text

(* A percent sign with fewer than two characters after it stands for itself. *)
decodeUrl(s) ==
    FoldLeftDomain(LAMBDA got, i :
        IF got.skip > 0 THEN [got EXCEPT !.skip = @ - 1]
        ELSE IF s[i] = "%" /\ Len(s) - i >= 2
             THEN [text |-> Append(got.text, hextochar(s[i + 1], s[i + 2])), skip |-> 2]
             ELSE [got EXCEPT !.text = Append(@, s[i])],
        [text |-> <<>>, skip |-> 0], s).text

(* What is between two & is name=value, or nothing; a name that comes again is not
   looked at.  Names are not decoded.                                        *)
parseUrl(s) ==
    LET Next(c, b) == Least({i \in b..Len(s) : s[i] = c} \cup {Len(s) + 1})
        begs     == {1} \cup {i + 1 : i \in {j \in DOMAIN s : s[j] = "&"}}
        pairs    == {b \in begs : Next("=", b) < Next("&", b)}
        Name(b)  == SubSeq(s, b, Next("=", b) - 1)
        Value(b) == decodeUrl(SubSeq(s, Next("=", b) + 1, Next("&", b) - 1))
    IN [n \in {Name(b) : b \in pairs} |-> Value(Least({b \in pairs : Name(b) = n}))]

isEmpty(param, name) == name \notin DOMAIN param \/ param[name] = <<>>
(* What operator[] says, which leaves a blank for a name that is not there. *)
ValueOf(param, name) == IF name \in DOMAIN param THEN param[name] ELSE <<>>

(* The result comes first, for those who look at nothing else. *)
packUrl(param) ==
    LET first   == DOMAIN param \cap {<<"result">>}
        Pair(n) == n \o <<"=">> \o encodeUrl(param[n]) \o <<"&">>
        names   == SetToSeq(first) \o SetToSeq(DOMAIN param \ first)
    IN FlattenSeq([i \in DOMAIN names |-> Pair(names[i])])
=============================================================================
