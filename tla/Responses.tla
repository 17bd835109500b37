------------------------------ MODULE Responses -----------------------------
(***************************************************************************)
(* The chain of response writers between a handler and the client: the     *)
(* gzip writer of the compression plugin around the reverse proxy, the     *)
(* access recorder of jsonlog around the target handler, and the writer of *)
(* error_page around the router.                                           *)
(*                                                                         *)
(* The output o of a request has the plugins' configuration (statuses with *)
(* an error page, logging, head for a HEAD request), the Content-Encoding  *)
(* in the header map, what the client was sent, and the writers' fields:   *)
(* latched is errorPageWriter.status and recorded accessRecorder.status,   *)
(* 0 standing for wroteHeader = false.                                     *)
(***************************************************************************)
EXTENDS Naturals, Sequences

NoOutput(statuses, logging, head) ==
  [statuses |-> statuses, logging |-> logging, head |-> head,
   coding |-> "", sent |-> 0, sentCoding |-> "", body |-> <<>>,
   latched |-> 0, paged |-> FALSE, recorded |-> 0]

-----------------------------------------------------------------------------
(* The server's writer *)

\* An informational status is sent and leaves the header open.
ClientHeader(o, code) ==
  IF o.sent # 0 \/ code < 200 THEN o
  ELSE [o EXCEPT !.sent = code, !.sentCoding = o.coding]

ClientWrite(o, chunk) ==
  LET p == ClientHeader(o, 200)
  IN IF o.head THEN p ELSE [p EXCEPT !.body = Append(@, chunk)]

-----------------------------------------------------------------------------
(* errorPageWriter *)

Renders(o) == o.latched \in o.statuses

\* Mutant: the page keeps the encoding of the body it replaces.
writePageEncoded(o) ==
  IF o.paged THEN o
  ELSE LET p == ClientHeader([o EXCEPT !.paged = TRUE], o.latched)
       IN IF o.head THEN p ELSE ClientWrite(p, "page")

writePage(o) ==
  IF o.paged THEN o
  ELSE LET p == ClientHeader([o EXCEPT !.paged = TRUE, !.coding = ""], o.latched)
       IN IF o.head THEN p ELSE ClientWrite(p, "page")

PageHeader(o, code) ==
  CASE o.statuses = {} -> ClientHeader(o, code)
    [] o.statuses # {} /\ o.latched # 0 -> o
    [] OTHER -> LET p == [o EXCEPT !.latched = code]
                IN IF Renders(p) THEN p ELSE ClientHeader(p, code)

PageWrite(o, chunk) ==
  LET p == IF o.statuses # {} /\ o.latched = 0 THEN PageHeader(o, 200) ELSE o
  IN IF Renders(p) THEN writePage(p) ELSE ClientWrite(p, chunk)

\* Flush of the client's writer sends the header.
PageFlush(o) == IF Renders(o) THEN writePage(o) ELSE ClientHeader(o, 200)

\* finish, and the server's own end of a response.
finish(o) == ClientHeader(IF Renders(o) THEN writePage(o) ELSE o, 200)

-----------------------------------------------------------------------------
(* accessRecorder *)

WriteHeader(o, code) ==
  CASE ~ o.logging -> PageHeader(o, code)
    [] o.logging /\ o.recorded # 0 -> o
    [] OTHER -> PageHeader([o EXCEPT !.recorded = code], code)

Write(o, chunk) ==
  PageWrite(IF o.logging /\ o.recorded = 0 THEN [o EXCEPT !.recorded = 200] ELSE o, chunk)

\* The status of the access line.
statusCode(o) == IF o.recorded = 0 THEN 200 ELSE o.recorded

\* http.Error and its kind: a status and a text.
Reply(o, code) == Write(WriteHeader(o, code), "own")

-----------------------------------------------------------------------------
(* The reverse proxy, with and without gzipResponseWriter.  A response of   *)
(* an upstream is [status, coding, worth, empty, hints, stream]: worth says *)
(* that its type and size are worth compressing, hints that an              *)
(* informational response came before it, stream that it is an event        *)
(* stream, which the reverse proxy flushes after every write.               *)

Proxied(o, resp) ==
  LET early == IF resp.hints THEN WriteHeader(o, 103) ELSE o
      header == WriteHeader([early EXCEPT !.coding = resp.coding], resp.status)
      body == IF resp.empty THEN header ELSE Write(header, "upstream")
  IN IF resp.stream /\ ~ resp.empty THEN PageFlush(body) ELSE body

\* WrapHandler: the response is buffered and then written in one of two forms.
Compressed(o, resp) ==
  LET copied == [o EXCEPT !.coding = resp.coding]
      flushed == IF resp.stream /\ ~ resp.empty THEN PageFlush(copied) ELSE copied
      zips == resp.coding = "" /\ resp.worth
      header == WriteHeader([flushed EXCEPT !.coding = IF zips THEN "gzip" ELSE @], resp.status)
  IN CASE zips -> Write(header, "gzip")
       [] ~ zips /\ ~ resp.empty -> Write(header, "upstream")
       [] OTHER -> header
=============================================================================
