---------------------------- MODULE MCAdmission ----------------------------
(* Three kinds of request: one with a frequency limit, one of a master key with a
   rule, one whose type only some addresses are authorised for.              *)
EXTENDS AdmissionProps, TLC

CONSTANTS w1, w2, missing, none

Workers == {w1, w2}
Alike == Permutations(Workers)

Line(k, v) == [ok |-> TRUE, key |-> k, val |-> v]
Bad        == [ok |-> FALSE, key |-> "", val |-> ""]

Limited == [ip |-> "a", type |-> 1, params |-> [request_type |-> "1"]]
Ruled   == [ip |-> "b", type |-> 12, params |-> [request_type |-> "12", bank |-> "x"]]
Guarded == [ip |-> "b", type |-> 2, params |-> [request_type |-> "2"]]
Three   == {Limited, Ruled, Guarded}

TwoRanges == <<[begin |-> 0, end |-> 10, keys |-> <<"request_type">>],
               [begin |-> 10, end |-> 20, keys |-> <<"bank">>]>>

Types1 == <<Line(<<"1">>, "s1"), Line(<<"2">>, "s2")>>
Types2 == <<Line(<<"x">>, "s3")>>

(* A limit of one call, and a line without its limit, which is skipped. *)
Limits == <<Line(<<"a", 1>>, [time |-> 0, max |-> 1]), Bad>>

Before == [types |-> <<Types1, Types2>>, access |-> <<Line("a", {}), Line("b", {2, 12})>>,
           limits |-> Limits, others |-> <<>>, auth |-> <<Line(2, {"b"}), Line(1, {"a"})>>]
After1 == [Before EXCEPT !.access = <<Line("b", {})>>,
                         !.auth = <<Line(2, {"b"}), Line(2, {"a"})>>]

(* The files after an edit, and with each of them gone. *)
SomeFiles == {After1, [Before EXCEPT !.types[2] = missing],
              [Before EXCEPT !.access = missing], [After1 EXCEPT !.limits = missing],
              [After1 EXCEPT !.others = missing], [After1 EXCEPT !.auth = missing]}

Rule == [master |-> [time |-> 1, max |-> 2], keys |-> <<"service_name">>,
         default |-> [time |-> 1, max |-> 1],
         items |-> <<[vals |-> <<"s3">>, own |-> FALSE, time |-> 0, max |-> 0]>>]
Rules == {<<Line("x", Rule)>>}
=============================================================================
