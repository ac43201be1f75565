------------------------------- MODULE Packet -------------------------------
(***************************************************************************)
(* What a client is sent for the answer of a back end (client_socket.cpp). *)
(* An answer is [protocol, body]; the body is a text in the text protocol, *)
(* and [result, text] in the binary one, where the result is an integer at *)
(* the front.                                                              *)
(***************************************************************************)
EXTENDS Text, TLC

Result   == <<"result">>
ResInfo  == <<"res_info">>
Comm     == <<"comm_value">>

IsText(answer) == answer.protocol = "text"

get_call_result(answer) ==
    IF IsText(answer) THEN atoi(ValueOf(parseUrl(answer.body), Result)) ELSE answer.body.result

(* A failure is told in full only for some types of requests. *)
Kept(param, full) ==
    IF full THEN param
    ELSE [n \in {Result, ResInfo} \cup ({Comm} \cap DOMAIN param) |-> ValueOf(param, n)]

Busy(code) == <<"[">> \o code \o <<"]system busy">>

(* The text is that of the table of codes: "" for one that is left as it is, "own" for one
   that is not in it.                                                        *)
encode_protocol_text(body, full, text) ==
    LET param == parseUrl(body)
        told  == CASE text = ""    -> <<>>
                   [] text = "own" -> ValueOf(param, ResInfo)
                   [] OTHER        -> <<text>>
        info  == IF told = <<>> THEN Busy(ValueOf(param, Result)) ELSE told
    IN packUrl([n \in DOMAIN Kept(param, full) \cup {ResInfo} |->
                   IF n = ResInfo THEN info ELSE Kept(param, full)[n]])

encode_protocol_binary(body, text) ==
    CASE text = ""    -> body
      [] text = "own" -> [body EXCEPT !.text = Busy(<<ToString(body.result)>>)]
      [] OTHER        -> [body EXCEPT !.text = <<text>>]

encode(answer, full, text) ==
    IF get_call_result(answer) = 0 THEN answer.body
    ELSE IF IsText(answer) THEN encode_protocol_text(answer.body, full, text)
                           ELSE encode_protocol_binary(answer.body, text)
=============================================================================
