---------------------------- MODULE RconSession ----------------------------
(***************************************************************************)
(* One RCON session as the Minecraft adapter's withRCON opens it          *)
(* (games/minecraft/rcon.go): Connect dials, sends the AUTH packet and    *)
(* reads one reply; Exec sends one COMMAND packet and reads packets until *)
(* a matching fragment shorter than the threshold, or a read fails; the   *)
(* deferred Close ends the session.                                        *)
(*                                                                         *)
(* The server-to-client direction is a TCP byte stream: the server's      *)
(* packets are encoded byte for byte as send() lays them out, the network *)
(* moves them into the client's socket buffer (whole packets, or in      *)
(* arbitrary segments when Segmenting), and each conn.Read returns what   *)
(* the buffer holds, up to the size asked for, as a TCP read does.  The   *)
(* client-to-server direction carries whole packets: the server is a real *)
(* RCON server that frames its input correctly.                           *)
(***************************************************************************)
EXTENDS Naturals, Integers, Sequences, SequencesExt

CONSTANTS
  Responses,     \* the texts (byte sequences) the server may answer with
  ServerFrag,    \* the server splits an answer into packets of this size (4096)
  Threshold,     \* Exec stops at a fragment shorter than this (4000 in Exec)
  MaxBody,       \* recv rejects a length above this (4096+16 in recv)
  ServerStyle,   \* "minecraft": one AUTH reply; "source": an empty
                 \* RESPONSE_VALUE packet, then the AUTH reply
  Segmenting     \* TRUE: packets may reach the socket in several pieces

ASSUME Threshold <= ServerFrag /\ ServerFrag + 10 <= MaxBody
ASSUME ServerStyle \in {"minecraft", "source"}

TypeAuth == 3
TypeCommand == 2
TypeResponse == 0
NL == 10

VARIABLES
  cpc,        \* where the client is
  reqID,      \* Client.requestID
  connOpen,   \* the TCP connection is open on the client side
  pktLen,     \* the length field of the packet recv is reading
  out,        \* Exec's collected fragments
  outcome,    \* what the session returned: "none", "ok", "err", "authFail"
  text,       \* the response text Exec returned
  toServer,   \* packets written by the client, not yet handled by the server
  srvQueue,   \* packets (byte sequences) the server wrote, not yet delivered
  rcvbuf,     \* bytes in the client's socket receive buffer
  pwCorrect,  \* the password the agent sends is the server's
  answer,     \* the fragments the server sent for the command (<<>>: none yet)
  shortRead   \* history: a recv Read got fewer bytes than it asked for

vars == <<cpc, reqID, connOpen, pktLen, out, outcome, text, toServer,
          srvQueue, rcvbuf, pwCorrect, answer, shortRead>>

-----------------------------------------------------------------------------
(* Wire format. *)

(* binary.LittleEndian.PutUint32(uint32(v)) for a 32-bit signed v. *)
LE32(v) ==
  LET u == IF v >= 0 THEN v ELSE -v - 1      \* two's complement: ~u
      B(k) == (u \div (256 ^ k)) % 256
  IN [k \in 1..4 |-> IF v >= 0 THEN B(k - 1) ELSE 255 - B(k - 1)]

(* send(): length | requestId | type | payload NUL | pad NUL, where the   *)
(* length counts everything after itself.                                 *)
Packet(id, typ, payload) ==
  LE32(Len(payload) + 10) \o LE32(id) \o LE32(typ) \o payload \o <<0, 0>>

(* binary.LittleEndian.Uint32 of the length bytes, as far as recv cares:  *)
(* any value with a high byte set is above MaxBody.                        *)
LengthOf(b) == IF b[3] + b[4] > 0 THEN MaxBody + 1 ELSE b[1] + 256 * b[2]

(* int32(binary.LittleEndian.Uint32(b)) *)
Int32Of(b) ==
  b[1] + 256 * b[2] + 65536 * b[3]
    + 16777216 * (IF b[4] >= 128 THEN b[4] - 256 ELSE b[4])

(* Mutation: the payload is used as read, NUL terminator and pad included. *)
CutAtNulKeep(s) == s

(* pay[:bytes.IndexByte(pay, 0)] when pay holds a NUL *)
CutAtNul(s) ==
  LET i == SelectInSeq(s, LAMBDA c : c = 0)
  IN IF i = 0 THEN s ELSE SubSeq(s, 1, i - 1)

Zeros(n) == [i \in 1..n |-> 0]

(* What one conn.Read(buf) with len(buf) = m leaves in buf: the bytes the *)
(* socket holds, up to m, and the zeros make() put in the rest.            *)
ReadInto(m) ==
  LET n == IF m < Len(rcvbuf) THEN m ELSE Len(rcvbuf)
  IN <<SubSeq(rcvbuf, 1, n) \o Zeros(m - n), SubSeq(rcvbuf, n + 1, Len(rcvbuf))>>

(* joinResponses: the parts separated by "\n". *)
JoinResponses(parts) ==
  IF parts = <<>> THEN <<>>
  ELSE FoldLeft(LAMBDA acc, p : acc \o <<NL>> \o p, Head(parts), Tail(parts))

(* The server splits an answer into ServerFrag-sized fragments; an empty   *)
(* answer is one packet with an empty payload.                             *)
Fragments(r) ==
  IF r = <<>> THEN <<<<>>>>
  ELSE [i \in 1..((Len(r) + ServerFrag - 1) \div ServerFrag) |->
          SubSeq(r, (i - 1) * ServerFrag + 1,
                 IF i * ServerFrag < Len(r) THEN i * ServerFrag ELSE Len(r))]

-----------------------------------------------------------------------------
TypeOK ==
  /\ cpc \in {"dial", "authHdr", "authBody", "exec", "execHdr", "execBody", "done"}
  /\ reqID \in 0..2
  /\ connOpen \in BOOLEAN
  /\ outcome \in {"none", "ok", "err", "authFail"}
  /\ \A i \in DOMAIN out : out[i] # <<>> /\ ~Contains(out[i], 0)
  /\ \A i \in DOMAIN rcvbuf : rcvbuf[i] \in 0..255
  /\ shortRead \in BOOLEAN

Init ==
  /\ cpc = "dial"
  /\ reqID = 0
  /\ connOpen = FALSE
  /\ pktLen = 0
  /\ out = <<>>
  /\ outcome = "none"
  /\ text = <<>>
  /\ toServer = <<>>
  /\ srvQueue = <<>>
  /\ rcvbuf = <<>>
  /\ pwCorrect \in BOOLEAN
  /\ answer = <<>>
  /\ shortRead = FALSE

(* The session returns; withRCON's deferred Close (or Connect's own       *)
(* conn.Close on a failed auth) closes the connection.                     *)
Finish(o, t) ==
  /\ cpc' = "done"
  /\ outcome' = o
  /\ text' = t
  /\ connOpen' = FALSE

ServerVars == <<toServer, srvQueue, answer, pwCorrect>>

(* Connect: DialTimeout, SetDeadline, then auth(): nextID, send AUTH. *)
DialFailed ==
  /\ cpc = "dial"
  /\ cpc' = "done" /\ outcome' = "err"
  /\ UNCHANGED <<reqID, connOpen, pktLen, out, text, rcvbuf, shortRead, ServerVars>>

Dial ==
  /\ cpc = "dial"
  /\ reqID' = reqID + 1
  /\ \/ /\ connOpen' = TRUE
        /\ toServer' = Append(toServer, [id |-> reqID + 1, type |-> TypeAuth])
        /\ cpc' = "authHdr"
        /\ UNCHANGED <<outcome, text>>
     \/ /\ Finish("err", <<>>)            \* the AUTH write fails
        /\ UNCHANGED toServer
  /\ UNCHANGED <<pktLen, out, rcvbuf, shortRead, srvQueue, answer, pwCorrect>>

(* Mutations of auth()'s check: a zero id, or any id but the request's,  *)
(* taken as the rejection.                                                *)
AuthRejectedZero(id) == id = 0
AuthRejectedIdMismatch(id) == id # reqID

(* auth(): "if resp.ID == -1": the server rejected the password. *)
AuthRejected(id) == id = -1

(* Mutation: Exec returns its (possibly empty) fragments as a success  *)
(* on any read error.                                                     *)
RecvFailedAlwaysOk ==
  IF cpc \in {"authHdr", "authBody"}
  THEN Finish("err", <<>>)
  ELSE Finish("ok", JoinResponses(out))

(* A recv error: auth() returns it and Connect closes the connection;    *)
(* Exec returns the fragments it has as a success, or else the error.     *)
RecvFailed ==
  IF cpc \in {"authHdr", "authBody"}
  THEN Finish("err", <<>>)
  ELSE Finish(IF out # <<>> THEN "ok" ELSE "err", JoinResponses(out))

(* recv(), first Read: the 4 length bytes; "packet too large" above MaxBody. *)
RecvHeader ==
  /\ cpc \in {"authHdr", "execHdr"}
  /\ rcvbuf # <<>>
  /\ shortRead' = (shortRead \/ Len(rcvbuf) < 4)
  /\ LET r == ReadInto(4)
     IN /\ rcvbuf' = r[2]
        /\ \/ /\ LengthOf(r[1]) <= MaxBody
              /\ pktLen' = LengthOf(r[1])
              /\ cpc' = IF cpc = "authHdr" THEN "authBody" ELSE "execBody"
              /\ UNCHANGED <<connOpen, outcome, text>>
           \/ /\ LengthOf(r[1]) > MaxBody
              /\ RecvFailed
              /\ UNCHANGED pktLen
  /\ UNCHANGED <<reqID, out, ServerVars>>

(* recv(), second Read into make([]byte, length); "packet too short"     *)
(* below 10; then the id and the payload cut at its NUL.  For AUTH an id  *)
(* of -1 is a failed authentication.  Exec keeps a non-empty payload that *)
(* carries its request id and stops at one shorter than Threshold; it     *)
(* skips any other packet.                                                 *)
RecvBody ==
  /\ cpc \in {"authBody", "execBody"}
  /\ rcvbuf # <<>> \/ pktLen = 0
  /\ shortRead' = (shortRead \/ Len(rcvbuf) < pktLen)
  /\ LET r == ReadInto(pktLen)
         rest == r[1]
         id == Int32Of(SubSeq(rest, 1, 4))
         pay == CutAtNul(SubSeq(rest, 9, pktLen))
     IN /\ rcvbuf' = r[2]
        /\ \/ /\ pktLen < 10
              /\ RecvFailed
              /\ UNCHANGED out
           \/ /\ pktLen >= 10 /\ cpc = "authBody" /\ AuthRejected(id)
              /\ Finish("authFail", <<>>)
              /\ UNCHANGED out
           \/ /\ pktLen >= 10 /\ cpc = "authBody" /\ ~AuthRejected(id)
              /\ cpc' = "exec"
              /\ UNCHANGED <<connOpen, outcome, text, out>>
           \/ /\ pktLen >= 10 /\ cpc = "execBody"
              /\ IF id = reqID /\ pay # <<>>
                 THEN /\ out' = Append(out, pay)
                      /\ IF Len(pay) < Threshold
                         THEN Finish("ok", JoinResponses(out'))
                         ELSE cpc' = "execHdr" /\ UNCHANGED <<connOpen, outcome, text>>
                 ELSE /\ cpc' = "execHdr"
                      /\ UNCHANGED <<out, connOpen, outcome, text>>
  /\ UNCHANGED <<reqID, pktLen, ServerVars>>

(* A Read that finds the socket empty blocks until the deadline (the      *)
(* Connect deadline for auth, 2s per read in Exec) and fails.  A Read into *)
(* an empty buffer (length 0) returns at once and is not a timeout.       *)
ReadTimeout ==
  /\ cpc \in {"authHdr", "authBody", "execHdr", "execBody"}
  /\ rcvbuf = <<>>
  /\ cpc \in {"authBody", "execBody"} => pktLen > 0
  /\ RecvFailed
  /\ UNCHANGED <<reqID, pktLen, out, rcvbuf, shortRead, ServerVars>>

(* Exec: nextID, send the COMMAND packet (or fail writing it). *)
ExecSend ==
  /\ cpc = "exec"
  /\ reqID' = reqID + 1
  /\ \/ /\ toServer' = Append(toServer, [id |-> reqID + 1, type |-> TypeCommand])
        /\ cpc' = "execHdr"
        /\ UNCHANGED <<connOpen, outcome, text>>
     \/ /\ Finish("err", <<>>)
        /\ UNCHANGED toServer
  /\ UNCHANGED <<pktLen, out, rcvbuf, shortRead, srvQueue, answer, pwCorrect>>

ClientNext ==
  DialFailed \/ Dial \/ RecvHeader \/ RecvBody \/ ReadTimeout \/ ExecSend

-----------------------------------------------------------------------------
(* The server answers AUTH with the request id, or -1 for a wrong         *)
(* password, and a command of an authenticated client with the fragments  *)
(* of some answer, each a RESPONSE_VALUE packet carrying the id.          *)
ServerAuth ==
  /\ toServer # <<>> /\ Head(toServer).type = TypeAuth
  /\ LET p == Head(toServer)
         reply == Packet(IF pwCorrect THEN p.id ELSE -1, TypeCommand, <<>>)
     IN srvQueue' = srvQueue \o
          (IF ServerStyle = "source"
           THEN <<Packet(p.id, TypeResponse, <<>>), reply>>
           ELSE <<reply>>)
  /\ toServer' = Tail(toServer)
  /\ UNCHANGED <<cpc, reqID, connOpen, pktLen, out, outcome, text, rcvbuf,
                 pwCorrect, answer, shortRead>>

ServerCommand ==
  /\ toServer # <<>> /\ Head(toServer).type = TypeCommand
  /\ LET p == Head(toServer)
     IN \/ /\ pwCorrect
           /\ \E r \in Responses :
                /\ answer' = Fragments(r)
                /\ srvQueue' = srvQueue \o
                     [i \in DOMAIN Fragments(r) |-> Packet(p.id, TypeResponse, Fragments(r)[i])]
        \/ /\ ~pwCorrect                  \* an unauthenticated command is ignored
           /\ UNCHANGED <<srvQueue, answer>>
  /\ toServer' = Tail(toServer)
  /\ UNCHANGED <<cpc, reqID, connOpen, pktLen, out, outcome, text, rcvbuf,
                 pwCorrect, shortRead>>

(* TCP moves the head packet into the client's socket, whole or, when    *)
(* Segmenting, a first piece of it.  Nothing arrives after Close.          *)
Deliver ==
  /\ srvQueue # <<>> /\ connOpen
  /\ LET h == Head(srvQueue)
     IN \E k \in (IF Segmenting THEN 1..Len(h) ELSE {Len(h)}) :
          /\ rcvbuf' = rcvbuf \o SubSeq(h, 1, k)
          /\ srvQueue' = IF k = Len(h) THEN Tail(srvQueue)
                         ELSE <<SubSeq(h, k + 1, Len(h))>> \o Tail(srvQueue)
  /\ UNCHANGED <<cpc, reqID, connOpen, pktLen, out, outcome, text, toServer,
                 pwCorrect, answer, shortRead>>

Next == ClientNext \/ ServerAuth \/ ServerCommand \/ Deliver

Spec == Init /\ [][Next]_vars

-----------------------------------------------------------------------------
(* Exec's result is the server's answer: a successful Exec returns the    *)
(* joined fragments of its own command's answer, all of them or those     *)
(* read before a read failed (spec 4.1, best-effort reassembly).          *)
ExecReturnsAnswerPrefix ==
  outcome = "ok" =>
    \E k \in 1..Len(answer) : text = JoinResponses(SubSeq(answer, 1, k))

(* A session gets past auth() only when the server accepted the password *)
(* (spec 8: a wrong password yields an authentication error).             *)
AuthOnlyWithPassword ==
  cpc \in {"exec", "execHdr", "execBody"} \/ outcome = "ok" => pwCorrect

(* The password decides a rejection: auth() reports a failed            *)
(* authentication only when the server refused the password, however the *)
(* network split the reply.                                               *)
AuthFailOnlyWrongPassword == outcome = "authFail" => ~pwCorrect

(* recv reads the length, then the body, each with one conn.Read, so its *)
(* framing holds only while every Read gets the bytes it asks for.  As    *)
(* long as none came up short, however TCP split the packets, a          *)
(* successful Exec returns its own command's answer (or a prefix of it)  *)
(* and auth() passes only with the right password.                        *)
WholeReadsDecodeRight ==
  ~shortRead => ExecReturnsAnswerPrefix /\ AuthOnlyWithPassword

=============================================================================
