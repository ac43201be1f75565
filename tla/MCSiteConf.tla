----------------------------- MODULE MCSiteConf -----------------------------
(* Two sites of one server with two IDCs, later a site more, one fewer, or files that
   are missing or wrong.                                                     *)
EXTENDS SiteConfProps

CONSTANTS w1, w2, missing, none

Workers == {w1, w2}
Alike == Permutations(Workers)

Line(k, v) == [ok |-> TRUE, key |-> k, val |-> v]
Bad        == [ok |-> FALSE, key |-> 0, val |-> NoSite]
At(v, u)   == [server |-> v, user |-> u]
Elem(v, order, nodes) == [server |-> v, protocol |-> "tcp", order |-> order, nodes |-> nodes]

Before == [errors |-> <<Line(7, "seven"), Line(9, "NO_ESCAPE")>>, details |-> {1},
           hasite |-> <<Elem("v", none, <<"a", "b">>)>>,
           core |-> <<Line(1, At("v", "u1")), Bad, Line(2, At("v", "u2"))>>]
After1 == [errors |-> <<Line(7, "NO_ESCAPE")>>, details |-> {},
           hasite |-> <<Elem("v", <<"b", " ", ":", "a">>, <<"a", "b">>), Elem("z", none, <<"a">>)>>,
           core |-> <<Line(1, At("v", "u3")), Line(3, At("z", "u1"))>>]
Moved  == [Before EXCEPT !.hasite = <<Elem("z", none, <<"a">>)>>, !.core = <<Line(1, At("z", "u1"))>>]
SomeFiles == {After1, Moved, [Before EXCEPT !.core = missing], [Before EXCEPT !.errors = missing],
              [After1 EXCEPT !.details = missing],
              [Before EXCEPT !.hasite = <<Elem("v", none, <<>>)>>],
              [Before EXCEPT !.hasite = <<[Elem("v", none, <<"a">>) EXCEPT !.protocol = "udp"]>>],
              [After1 EXCEPT !.hasite = missing]}

(* Answers in text with a code that is kept, one that is not, and nought; a value with every
   character that is encoded, and a name that comes twice; and a binary answer. *)
Say(code, more) == Result \o <<"=", code>> \o more
Text1 == Say("7", <<"&", "key", "=", "%", "2", "5", "2", "6", "%", "2", "&", "key", "=", "x", "&">>)
Text2 == <<"res_info", "=", "%", "2", "6", "&">> \o Say("9", <<"&", "comm_value", "=", "%", "3", "d", "&", "key">>)
SomeAnswers ==
    {[protocol |-> "text", body |-> Text1, type |-> 1], [protocol |-> "text", body |-> Text2, type |-> 2],
     [protocol |-> "text", body |-> Say("0", <<>>), type |-> 2],
     [protocol |-> "binary", body |-> [result |-> 7, text |-> <<"x">>], type |-> 2]}

(* Bounded inputs for the conversions; two hexadecimal digits follow a percent sign, or
   the value ends.                                                           *)
Symbols == {"%", "&", "=", "2", "6", "x"}
Short == {s \in BoundedSeq(Symbols, 4) : \A i \in DOMAIN s :
             s[i] = "%" => \A j \in {i + 1, i + 2} \cap DOMAIN s : s[j] \in {"2", "6"}}
=============================================================================
