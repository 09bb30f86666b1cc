------------------------------ MODULE Messages ------------------------------
(***************************************************************************)
(* Messages, requests, responses and errors, and how one becomes another   *)
(* (messages.cpp).  A body is a JSON object: a function from the names of  *)
(* its fields.  A type is the sequence of its parts, so that `_ok' can be  *)
(* put behind it.                                                          *)
(*                                                                         *)
(* NetworkProcessor takes it for granted that the answer to a request      *)
(* carries the id of the request and comes back to its sender as a         *)
(* response, with its error if it is one.                                  *)
(***************************************************************************)
EXTENDS Sequences

kErrorType == <<"error">>

NullOpt == "nullopt"

EmptyBody == [field \in {} |-> field]

(* body[field] = value *)
With(body, field, value) ==
  [f \in DOMAIN body \cup {field} |-> IF f = field THEN value ELSE body[f]]

-----------------------------------------------------------------------------
(* struct Message.                                                         *)

IsRequest(m) == {"type", "msg_id"} \subseteq DOMAIN m.body

MessageToRequest(m) ==
  IF IsRequest(m)
  THEN [source |-> m.source, destination |-> m.destination,
        type |-> m.body["type"], body |-> m.body,
        message_id |-> m.body["msg_id"]]
  ELSE NullOpt

IsResponse(m) == {"type", "in_reply_to"} \subseteq DOMAIN m.body

MessageToResponse(m) ==
  IF IsResponse(m)
  THEN [source |-> m.source, destination |-> m.destination,
        type |-> m.body["type"], body |-> m.body,
        in_reply_to |-> m.body["in_reply_to"]]
  ELSE NullOpt

ToJson(m) ==
  With(With(With(EmptyBody, "src", m.source), "dest", m.destination),
       "body", m.body)

(* A JSON line; what is not JSON throws *)
Parse(json) ==
  IF {"src", "dest", "body"} \subseteq DOMAIN json
  THEN [source |-> json["src"], destination |-> json["dest"],
        body |-> json["body"]]
  ELSE NullOpt

(* Node::Run asks for a request first *)
TakenAsRequest(m) == IsRequest(m)

TakenAsResponse(m) == ~IsRequest(m) /\ IsResponse(m)

-----------------------------------------------------------------------------
(* struct Request, Response and Error.                                     *)

RequestToMessage(r) ==
  [source |-> r.source, destination |-> r.destination,
   body |-> With(With(r.body, "type", r.type), "msg_id", r.message_id)]

RequestToResponse(r, body) ==
  [source |-> r.destination, destination |-> r.source,
   type |-> r.type \o <<"_ok">>, body |-> body, in_reply_to |-> r.message_id]

RequestToError(r, code, what) ==
  [source |-> r.destination, destination |-> r.source, code |-> code,
   what |-> what, body |-> EmptyBody, in_reply_to |-> r.message_id]

ResponseToMessage(r) ==
  [source |-> r.source, destination |-> r.destination,
   body |-> With(With(r.body, "type", r.type), "in_reply_to", r.in_reply_to)]

IsError(r) == r.type = kErrorType /\ {"code", "text"} \subseteq DOMAIN r.body

ResponseToError(r) ==
  IF IsError(r)
  THEN [source |-> r.source, destination |-> r.destination,
        code |-> r.body["code"], what |-> r.body["text"], body |-> r.body,
        in_reply_to |-> r.in_reply_to]
  ELSE NullOpt

ErrorToResponse(e) ==
  [source |-> e.source, destination |-> e.destination, type |-> kErrorType,
   body |-> With(With(e.body, "code", e.code), "text", e.what),
   in_reply_to |-> e.in_reply_to]

(* What arrives when m is written to stdout and read from stdin *)
Arrived(m) == Parse(ToJson(m))
=============================================================================
