---------------------------- MODULE ResponseProofs --------------------------
(***************************************************************************)
(* The response a client sees is the one that was decided on, in any       *)
(* environment: first what each chain of writers makes of an answer, then  *)
(* that the requests' answers go through them.                             *)
(***************************************************************************)
EXTENDS RequestPathProofs

-----------------------------------------------------------------------------
(* The writers *)

\* The record of the writers, with its fields named.
Output(st, lo, he, co, se, sc, bo, la, pa, re) ==
  [statuses |-> st, logging |-> lo, head |-> he, coding |-> co, sent |-> se, sentCoding |-> sc,
   body |-> bo, latched |-> la, paged |-> pa, recorded |-> re]

\* Values of the fields, by name.
Plain == ""
Paged == TRUE
Unpaged == FALSE
Nothing == <<>>
OnePage == <<"page">>

\* The fields of the record.
LEMMA OutputFields ==
  ASSUME NEW st, NEW lo, NEW he, NEW co, NEW se, NEW sc, NEW bo, NEW la, NEW pa, NEW re
  PROVE  LET o == Output(st, lo, he, co, se, sc, bo, la, pa, re) IN
         /\ o.statuses = st /\ o.logging = lo /\ o.head = he /\ o.coding = co /\ o.sent = se
         /\ o.sentCoding = sc /\ o.body = bo /\ o.latched = la /\ o.paged = pa /\ o.recorded = re
BY DEF Output

\* The server's writer sends one final status.
LEMMA ClientHeaderFacts ==
  ASSUME NEW st, NEW lo, NEW he, NEW co, NEW se, NEW sc, NEW bo, NEW la, NEW pa, NEW re, NEW code
  PROVE  LET o == Output(st, lo, he, co, se, sc, bo, la, pa, re) IN
         /\ se # 0 \/ code < 200 => ClientHeader(o, code) = o
         /\ se = 0 /\ ~ (code < 200) =>
              ClientHeader(o, code) = Output(st, lo, he, co, code, co, bo, la, pa, re)
<1> DEFINE o == Output(st, lo, he, co, se, sc, bo, la, pa, re)
           p == Output(st, lo, he, co, code, sc, bo, la, pa, re)
           low == code < 200
<1>1. o.sent = se /\ o.coding = co
  BY OutputFields
<1>2. [o EXCEPT !.sent = code] = p
  BY DEF Output
<1>3. [p EXCEPT !.sentCoding = co] = Output(st, lo, he, co, code, co, bo, la, pa, re)
  BY DEF Output
<1> HIDE DEF o, p
<1>4. [o EXCEPT !.sent = code, !.sentCoding = co] = [[o EXCEPT !.sent = code] EXCEPT !.sentCoding = co]
  OBVIOUS
<1>5. ClientHeader(o, code) = IF se # 0 \/ low THEN o
                              ELSE [o EXCEPT !.sent = code, !.sentCoding = co]
  BY <1>1 DEF ClientHeader
<1> HIDE DEF low
<1>6. /\ se # 0 \/ low => ClientHeader(o, code) = o
      /\ se = 0 /\ ~ low => ClientHeader(o, code) = Output(st, lo, he, co, code, co, bo, la, pa, re)
  BY <1>2, <1>3, <1>4, <1>5, Zenon
<1> QED
  BY <1>6, Zenon DEF o, low

\* What a chunk adds to what the client has.
LEMMA ClientWriteFacts ==
  ASSUME NEW st, NEW lo, NEW he, NEW co, NEW se, NEW sc, NEW bo, NEW la, NEW pa, NEW re,
         NEW chunk, se # 0
  PROVE  LET o == Output(st, lo, he, co, se, sc, bo, la, pa, re) IN
         ClientWrite(o, chunk) =
           IF he THEN o ELSE Output(st, lo, he, co, se, sc, Append(bo, chunk), la, pa, re)
<1> DEFINE o == Output(st, lo, he, co, se, sc, bo, la, pa, re)
           more == Append(bo, chunk)
<1>1. ClientHeader(o, 200) = o
  BY ClientHeaderFacts
<1>2. o.head = he /\ o.body = bo
  BY OutputFields
<1>3. ClientWrite(o, chunk) = IF he THEN o ELSE [o EXCEPT !.body = more]
  BY <1>1, <1>2, Zenon DEF ClientWrite
<1> HIDE DEF more
<1>4. [o EXCEPT !.body = more] = Output(st, lo, he, co, se, sc, more, la, pa, re)
  BY DEF Output
<1> HIDE DEF o
<1>5. ClientWrite(o, chunk) =
        IF he THEN o ELSE Output(st, lo, he, co, se, sc, more, la, pa, re)
  BY <1>3, <1>4
<1> QED
  BY <1>5, Zenon DEF o, more

\* The page takes the place of a body, without its encoding, once.
LEMMA WritePageFacts ==
  ASSUME NEW st, NEW lo, NEW he, NEW co, NEW se, NEW sc, NEW bo, NEW la, NEW pa, NEW re
  PROVE  LET o == Output(st, lo, he, co, se, sc, bo, la, pa, re) IN
         /\ pa => writePage(o) = o
         /\ ~ pa /\ se = 0 /\ Final(la) /\ bo = Nothing =>
              writePage(o) =
                Output(st, lo, he, Plain, la, Plain, IF he THEN Nothing ELSE OnePage, la, Paged, re)
<1> DEFINE o == Output(st, lo, he, co, se, sc, bo, la, pa, re)
           q == Output(st, lo, he, Plain, se, sc, bo, la, Paged, re)
           r == Output(st, lo, he, Plain, la, Plain, bo, la, Paged, re)
<1>1. o.paged = pa /\ o.latched = la /\ o.head = he
  BY OutputFields, SMTT(30)
<1>2. [o EXCEPT !.paged = Paged, !.coding = Plain] = q
  <2>1. [o EXCEPT !.paged = Paged] = Output(st, lo, he, co, se, sc, bo, la, Paged, re)
    BY DEF Output
  <2>2. [Output(st, lo, he, co, se, sc, bo, la, Paged, re) EXCEPT !.coding = Plain] = q
    BY DEF Output
  <2> HIDE DEF o, q
  <2>3. [o EXCEPT !.paged = Paged, !.coding = Plain]
          = [[o EXCEPT !.paged = Paged] EXCEPT !.coding = Plain]
    OBVIOUS
  <2> QED
    BY <2>1, <2>2, <2>3, Zenon
<1>3. [o EXCEPT !.paged = TRUE, !.coding = ""] = q
  BY <1>2, Zenon DEF Paged, Plain
<1>4. writePage(o) = IF pa THEN o
                     ELSE IF he THEN ClientHeader(q, la) ELSE ClientWrite(ClientHeader(q, la), "page")
  BY <1>1, <1>3, Zenon DEF writePage
<1>5. ASSUME ~ pa, se = 0, Final(la), bo = Nothing
      PROVE  writePage(o) =
               Output(st, lo, he, Plain, la, Plain, IF he THEN Nothing ELSE OnePage, la, Paged, re)
  <2>1. ~ (la < 200) /\ la # 0
    BY <1>5 DEF Final
  <2>2. ClientHeader(q, la) = r
    BY <1>5, <2>1, ClientHeaderFacts, SMTT(30)
  <2>3. ClientWrite(r, "page") =
          IF he THEN r ELSE Output(st, lo, he, Plain, la, Plain, Append(bo, "page"), la, Paged, re)
    BY <2>1, ClientWriteFacts, SMTT(30)
  <2>4. Append(bo, "page") = OnePage
    BY <1>5 DEF Nothing, OnePage
  <2> HIDE DEF o, q, r
  <2>5. CASE he
    BY <1>4, <1>5, <2>2, <2>5, Zenon DEF r
  <2>6. CASE ~ he
    BY <1>4, <1>5, <2>2, <2>3, <2>4, <2>6, Zenon
  <2> QED
    BY <2>5, <2>6, Zenon
<1>6. pa => writePage(o) = o
  BY <1>4
<1> QED
  BY <1>5, <1>6, Zenon

\* An output before its header, one with a status that will get a page, one with a page,
\* and one that was sent as it is.
Fresh(st, lo, he, co) == Output(st, lo, he, co, 0, Plain, Nothing, 0, Unpaged, 0)
Held(st, lo, he, co, code, re) == Output(st, lo, he, co, 0, Plain, Nothing, code, Unpaged, re)
WithPage(st, lo, he, code, re) ==
  Output(st, lo, he, Plain, code, Plain, IF he THEN Nothing ELSE OnePage, code, Paged, re)
Sent(st, lo, he, co, code, bo, la, re) ==
  Output(st, lo, he, co, code, co, bo, la, Unpaged, re)

\* What error_page and jsonlog keep of a status, and what a HEAD leaves of a body.
Latch(st, code) == IF st = {} THEN 0 ELSE code
Noted(lo, code) == IF lo THEN code ELSE 0
Body(he, chunk) == IF he THEN Nothing ELSE <<chunk>>

\* A header that error_page holds back, or lets through.
LEMMA PageHeaderFacts ==
  ASSUME NEW st, NEW lo, NEW he, NEW co, NEW re, NEW code, Final(code)
  PROVE  LET o == Output(st, lo, he, co, 0, Plain, Nothing, 0, Unpaged, re) IN
         /\ code \in st => PageHeader(o, code) = Held(st, lo, he, co, code, re)
         /\ code \notin st =>
              PageHeader(o, code) = Sent(st, lo, he, co, code, Nothing, Latch(st, code), re)
<1> DEFINE o == Output(st, lo, he, co, 0, Plain, Nothing, 0, Unpaged, re)
           p == Output(st, lo, he, co, 0, Plain, Nothing, code, Unpaged, re)
<1>1. o.statuses = st /\ o.latched = 0
  BY OutputFields, SMTT(30)
<1>2. [o EXCEPT !.latched = code] = p
  BY DEF Output
<1>3. p.statuses = st /\ p.latched = code
  BY OutputFields, SMTT(30)
<1>4. ~ (code < 200)
  BY DEF Final
<1>5. /\ ClientHeader(o, code) = Output(st, lo, he, co, code, co, Nothing, 0, Unpaged, re)
      /\ ClientHeader(p, code) = Output(st, lo, he, co, code, co, Nothing, code, Unpaged, re)
  BY <1>4, ClientHeaderFacts, SMTT(30)
<1> HIDE DEF o, p
<1>6. st = {} => PageHeader(o, code) = ClientHeader(o, code)
  BY <1>1 DEF PageHeader
<1>7. st # {} => PageHeader(o, code) = IF Renders(p) THEN p ELSE ClientHeader(p, code)
  BY <1>1, <1>2, Zenon DEF PageHeader
<1>8. Renders(p) <=> code \in st
  BY <1>3, Zenon DEF Renders
<1>9. CASE code \in st
  <2>1. PageHeader(o, code) = p
    BY <1>7, <1>8, <1>9, Zenon
  <2> QED
    BY <1>9, <2>1, Zenon DEF o, p, Held
<1>10. CASE code \notin st
  <2>1. CASE st = {}
    BY <1>5, <1>6, <1>10, <2>1, Zenon DEF o, Sent, Latch
  <2>2. CASE st # {}
    BY <1>5, <1>7, <1>8, <1>10, <2>2, Zenon DEF o, Sent, Latch
  <2> QED
    BY <2>1, <2>2, Zenon
<1> QED
  BY <1>9, <1>10, Zenon

\* The header of a response.
LEMMA HeaderFacts ==
  ASSUME NEW st, NEW lo, NEW he, NEW co, NEW code, Final(code)
  PROVE  LET o == WriteHeader(Fresh(st, lo, he, co), code) IN
         /\ code \in st => o = Held(st, lo, he, co, code, Noted(lo, code))
         /\ code \notin st =>
              o = Sent(st, lo, he, co, code, Nothing, Latch(st, code), Noted(lo, code))
<1> DEFINE o == Output(st, lo, he, co, 0, Plain, Nothing, 0, Unpaged, 0)
           p == Output(st, lo, he, co, 0, Plain, Nothing, 0, Unpaged, code)
<1>1. o.logging = lo /\ o.recorded = 0
  BY OutputFields
<1>2. [o EXCEPT !.recorded = code] = p
  BY DEF Output
<1>3. /\ code \in st => /\ PageHeader(o, code) = Held(st, lo, he, co, code, 0)
                        /\ PageHeader(p, code) = Held(st, lo, he, co, code, code)
      /\ code \notin st =>
           /\ PageHeader(o, code) = Sent(st, lo, he, co, code, Nothing, Latch(st, code), 0)
           /\ PageHeader(p, code) = Sent(st, lo, he, co, code, Nothing, Latch(st, code), code)
  BY PageHeaderFacts
<1>4. Fresh(st, lo, he, co) = o
  BY Zenon DEF Fresh
<1> HIDE DEF o, p
<1>5. ~ lo => WriteHeader(o, code) = PageHeader(o, code)
  BY <1>1, Zenon DEF WriteHeader
<1>6. lo => WriteHeader(o, code) = PageHeader(p, code)
  BY <1>1, <1>2, Zenon DEF WriteHeader
<1>7. CASE lo
  BY <1>3, <1>4, <1>6, <1>7, Zenon DEF Noted
<1>8. CASE ~ lo
  BY <1>3, <1>4, <1>5, <1>8, Zenon DEF Noted
<1> QED
  BY <1>7, <1>8, Zenon

\* The body of one.
LEMMA WriteFacts ==
  ASSUME NEW st, NEW lo, NEW he, NEW co, NEW code, Final(code), NEW chunk
  PROVE  LET re == Noted(lo, code) IN
         /\ code \in st =>
              Write(Held(st, lo, he, co, code, re), chunk) = WithPage(st, lo, he, code, re)
         /\ code \notin st =>
              Write(Sent(st, lo, he, co, code, Nothing, Latch(st, code), re), chunk) =
                Sent(st, lo, he, co, code, Body(he, chunk), Latch(st, code), re)
<1> DEFINE re == Noted(lo, code)
           la == Latch(st, code)
           o == Held(st, lo, he, co, code, re)
           p == Sent(st, lo, he, co, code, Nothing, la, re)
<1>0. code # 0
  BY DEF Final
<1>1. (lo => re # 0) /\ (st # {} => la # 0) /\ (la \in st <=> st # {} /\ code \in st)
  BY <1>0, Zenon DEF Noted, Latch
<1> HIDE DEF re, la
<1>2. /\ o.statuses = st /\ o.latched = code /\ o.logging = lo /\ o.recorded = re
      /\ p.statuses = st /\ p.latched = la /\ p.logging = lo /\ p.recorded = re
  BY OutputFields, SMTT(30) DEF Held, Sent
<1>3. ASSUME code \in st
      PROVE  Write(o, chunk) = WithPage(st, lo, he, code, re)
  <2>1. writePage(o) = WithPage(st, lo, he, code, re)
    <3>1. ~ Unpaged
      BY Zenon DEF Unpaged
    <3> QED
      BY <3>1, WritePageFacts DEF Held, WithPage
  <2> HIDE DEF o
  <2>2. Renders(o)
    BY <1>2, <1>3, Zenon DEF Renders
  <2>3. PageWrite(o, chunk) = writePage(o)
    BY <1>0, <1>2, <2>2, Zenon DEF PageWrite
  <2>4. Write(o, chunk) = PageWrite(o, chunk)
    BY <1>1, <1>2, Zenon DEF Write
  <2> QED
    BY <2>1, <2>3, <2>4, Zenon
<1>4. ASSUME code \notin st
      PROVE  Write(p, chunk) = Sent(st, lo, he, co, code, Body(he, chunk), la, re)
  <2>1. ClientWrite(p, chunk) =
          IF he THEN p ELSE Output(st, lo, he, co, code, co, Append(Nothing, chunk), la, Unpaged, re)
    BY <1>0, ClientWriteFacts, SMTT(30) DEF Sent
  <2>2. Append(Nothing, chunk) = <<chunk>>
    BY DEF Nothing
  <2>3. ClientWrite(p, chunk) = Sent(st, lo, he, co, code, Body(he, chunk), la, re)
    <3>1. CASE he
      <4>1. Body(he, chunk) = Nothing
        BY <3>1 DEF Body
      <4> QED
        BY <2>1, <3>1, <4>1, Zenon
    <3>2. CASE ~ he
      <4>1. Body(he, chunk) = Append(Nothing, chunk)
        BY <2>2, <3>2, Zenon DEF Body
      <4> QED
        BY <2>1, <3>2, <4>1, Zenon DEF Sent
    <3> QED
      BY <3>1, <3>2, SMTT(30)
  <2> HIDE DEF p
  <2>4. ~ Renders(p)
    BY <1>1, <1>2, <1>4, Zenon DEF Renders
  <2>5. PageWrite(p, chunk) = ClientWrite(p, chunk)
    BY <1>1, <1>2, <2>4, Zenon DEF PageWrite
  <2>6. Write(p, chunk) = PageWrite(p, chunk)
    BY <1>1, <1>2 DEF Write
  <2> QED
    BY <2>3, <2>5, <2>6, Zenon
<1> QED
  BY <1>3, <1>4, Zenon DEF re, la

\* The end of one, and a flush before it.
LEMMA EndFacts ==
  ASSUME NEW st, NEW lo, NEW he, NEW co, NEW code, Final(code), NEW bo, NEW re
  PROVE  /\ code \in st =>
              /\ finish(Held(st, lo, he, co, code, re)) = WithPage(st, lo, he, code, re)
              /\ finish(WithPage(st, lo, he, code, re)) = WithPage(st, lo, he, code, re)
              /\ PageFlush(WithPage(st, lo, he, code, re)) = WithPage(st, lo, he, code, re)
         /\ code \notin st =>
              LET p == Sent(st, lo, he, co, code, bo, Latch(st, code), re)
              IN finish(p) = p /\ PageFlush(p) = p
<1> DEFINE la == Latch(st, code)
           h == Held(st, lo, he, co, code, re)
           o == WithPage(st, lo, he, code, re)
           p == Sent(st, lo, he, co, code, bo, la, re)
<1>0. code # 0
  BY DEF Final
<1>1. la \in st <=> st # {} /\ code \in st
  BY <1>0, Zenon DEF Latch
<1> HIDE DEF la
<1>2. /\ h.statuses = st /\ h.latched = code
      /\ o.statuses = st /\ o.latched = code
      /\ p.statuses = st /\ p.latched = la
  BY OutputFields, SMTT(30) DEF Held, Sent, WithPage
<1>3. Paged
  BY Zenon DEF Paged
<1>4. writePage(h) = o
  <2>1. ~ Unpaged
    BY Zenon DEF Unpaged
  <2> QED
    BY <2>1, WritePageFacts, SMTT(30) DEF Held, WithPage
<1>8. writePage(o) = o
  <2>1. o.paged = Paged
    BY OutputFields, SMTT(30) DEF WithPage
  <2> HIDE DEF o
  <2> QED
    BY <1>3, <2>1, Zenon DEF writePage
<1>5. ClientHeader(o, 200) = o /\ ClientHeader(p, 200) = p
  BY <1>0, ClientHeaderFacts, SMTT(30) DEF WithPage, Sent
<1> HIDE DEF h, o, p
<1>6. ASSUME code \in st
      PROVE  finish(h) = o /\ finish(o) = o /\ PageFlush(o) = o
  <2>1. Renders(h) /\ Renders(o)
    BY <1>2, <1>6 DEF Renders
  <2> QED
    BY <1>4, <1>5, <1>8, <2>1, SMTT(30) DEF finish, PageFlush
<1>7. ASSUME code \notin st
      PROVE  finish(p) = p /\ PageFlush(p) = p
  <2>1. ~ Renders(p)
    BY <1>1, <1>2, <1>7, Zenon DEF Renders
  <2> QED
    BY <1>5, <2>1, Zenon DEF finish, PageFlush
<1> QED
  BY <1>6, <1>7, Zenon DEF h, o, p, la

\* A handler that writes nothing.
LEMMA SilentFacts ==
  ASSUME NEW st, 0 \notin st, NEW lo, NEW he
  PROVE  finish(Fresh(st, lo, he, Plain)) =
           Output(st, lo, he, Plain, 200, Plain, Nothing, 0, Unpaged, 0)
<1> DEFINE o == Fresh(st, lo, he, Plain)
<1>1. o.statuses = st /\ o.latched = 0
  BY OutputFields, SMTT(30) DEF Fresh
<1>2. ClientHeader(o, 200) = Output(st, lo, he, Plain, 200, Plain, Nothing, 0, Unpaged, 0)
  <2>1. ~ (200 < 200)
    OBVIOUS
  <2> QED
    BY <2>1, ClientHeaderFacts, SMTT(30) DEF Fresh
<1> HIDE DEF o
<1>3. ~ Renders(o)
  BY <1>1, Zenon DEF Renders
<1>4. finish(o) = ClientHeader(o, 200)
  BY <1>3 DEF finish
<1> QED
  BY <1>2, <1>4 DEF o

\* The output o of a finished response shows the client the answer r.
Shows(o, st, r) ==
  /\ o.sent = r.status
  /\ o.logging => statusCode(o) = r.status
  /\ Len(o.body) <= 1
  /\ o.paged <=> r.status \in st
  /\ o.paged => o.sentCoding = "" /\ \A i \in DOMAIN o.body : o.body[i] = "page"
  /\ \A i \in DOMAIN o.body : o.body[i] = "upstream" => o.sentCoding = r.coding
  /\ o.body = <<"gzip">> => o.sentCoding = "gzip" /\ r.coding = ""

\* A body of this kind goes with the answer r if the header says co.
Suits(chunk, co, r) ==
  /\ chunk = "upstream" => co = r.coding
  /\ chunk = "gzip" => co = "gzip" /\ r.coding = ""

\* A held status shows as an error page.
LEMMA PageShows ==
  ASSUME NEW st, NEW lo, NEW he, NEW r, Final(r.status), r.status \in st
  PROVE  Shows(WithPage(st, lo, he, r.status, Noted(lo, r.status)), st, r)
<1> DEFINE re == Noted(lo, r.status)
           bo == IF he THEN Nothing ELSE OnePage
           o == WithPage(st, lo, he, r.status, re)
<1>1. lo => re = r.status /\ re # 0
  BY DEF Noted, Final
<1> HIDE DEF re
<1>2. /\ o.sent = r.status /\ o.logging = lo /\ o.recorded = re /\ o.body = bo
      /\ o.paged = Paged /\ o.sentCoding = Plain
  BY OutputFields, SMTT(30) DEF WithPage
<1>3. Len(bo) <= 1 /\ (\A i \in DOMAIN bo : bo[i] = "page") /\ bo # <<"gzip">>
  <2>1. CASE he
    <3>1. bo = <<>>
      BY <2>1 DEF Nothing
    <3> QED
      BY <3>1
  <2>2. CASE ~ he
    <3>1. bo = <<"page">>
      BY <2>2, Zenon DEF OnePage
    <3>2. /\ Len(<<"page">>) <= 1
          /\ \A i \in DOMAIN <<"page">> : <<"page">>[i] = "page"
      OBVIOUS
    <3>3. <<"page">> # <<"gzip">>
      OBVIOUS
    <3> HIDE DEF bo
    <3> QED
      BY <3>1, <3>2, <3>3, Zenon
  <2> QED
    BY <2>1, <2>2, Zenon
<1> HIDE DEF o, bo
<1>4. o.logging => statusCode(o) = r.status
  BY <1>1, <1>2, Zenon DEF statusCode
<1>5. \A i \in DOMAIN bo : bo[i] # "upstream"
  BY <1>3
<1>6. Paged /\ Plain = ""
  BY Zenon DEF Paged, Plain
<1>7. Shows(o, st, r)
  BY <1>2, <1>3, <1>4, <1>5, <1>6, Zenon DEF Shows
<1> QED
  BY <1>7, Zenon DEF o, re

\* A header that was sent shows as it is.
LEMMA SentShows ==
  ASSUME NEW st, NEW lo, NEW he, NEW co, NEW r, Final(r.status), r.status \notin st, NEW la,
         NEW bo, bo = Nothing \/ \E chunk : bo = <<chunk>> /\ Suits(chunk, co, r)
  PROVE  Shows(Sent(st, lo, he, co, r.status, bo, la, Noted(lo, r.status)), st, r)
<1> DEFINE re == Noted(lo, r.status)
           o == Sent(st, lo, he, co, r.status, bo, la, re)
<1>1. lo => re = r.status /\ re # 0
  BY DEF Noted, Final
<1> HIDE DEF re
<1>2. /\ o.sent = r.status /\ o.logging = lo /\ o.recorded = re /\ o.body = bo
      /\ o.paged = Unpaged /\ o.sentCoding = co
  BY OutputFields, SMTT(30) DEF Sent
<1>3. /\ Len(bo) <= 1
      /\ \A i \in DOMAIN bo : bo[i] = "upstream" => co = r.coding
      /\ bo = <<"gzip">> => co = "gzip" /\ r.coding = ""
  <2>1. CASE bo = Nothing
    <3>1. bo = <<>>
      BY <2>1, Zenon DEF Nothing
    <3> QED
      BY <3>1, SMTT(30)
  <2>2. ASSUME NEW chunk, bo = <<chunk>>, Suits(chunk, co, r)
        PROVE  /\ Len(bo) <= 1
               /\ \A i \in DOMAIN bo : bo[i] = "upstream" => co = r.coding
               /\ bo = <<"gzip">> => co = "gzip" /\ r.coding = ""
    <3>1. Len(bo) = 1 /\ DOMAIN bo = {1} /\ bo[1] = chunk
      BY <2>2
    <3>2. bo = <<"gzip">> => chunk = "gzip"
      BY <2>2, Zenon
    <3>3. \A i \in DOMAIN bo : bo[i] = chunk
      BY <3>1
    <3>4. Len(bo) <= 1
      BY <3>1
    <3> QED
      BY <2>2, <3>2, <3>3, <3>4, Zenon DEF Suits
  <2> QED
    BY <2>1, <2>2, Zenon
<1> HIDE DEF o
<1>4. o.logging => statusCode(o) = r.status
  BY <1>1, <1>2, Zenon DEF statusCode
<1>5. ~ Unpaged
  BY DEF Unpaged
<1>6. Shows(o, st, r)
  BY <1>2, <1>3, <1>4, <1>5, Zenon DEF Shows
<1> QED
  BY <1>6, Zenon DEF o, re

\* A handler that writes nothing shows as 200.
LEMMA SilentShows ==
  ASSUME NEW st, \A s \in st : Final(s) /\ s # 200, NEW lo, NEW he, NEW r,
         r.status = 200
  PROVE  Shows(finish(Fresh(st, lo, he, Plain)), st, r)
<1> DEFINE o == finish(Fresh(st, lo, he, Plain))
<1>1. 0 \notin st /\ 200 \notin st
  BY DEF Final
<1>2. o = Output(st, lo, he, Plain, 200, Plain, Nothing, 0, Unpaged, 0)
  BY <1>1, SilentFacts, SMTT(30)
<1> HIDE DEF o
<1>3. /\ o.sent = 200 /\ o.recorded = 0 /\ o.body = Nothing
      /\ o.paged = Unpaged
  BY <1>2, OutputFields, SMTT(30)
<1>4. statusCode(o) = 200
  BY <1>3 DEF statusCode
<1>5. ~ Unpaged
  BY DEF Unpaged
<1>6. Len(Nothing) <= 1 /\ DOMAIN Nothing = {} /\ Nothing # <<"gzip">>
  BY DEF Nothing
<1>7. Shows(o, st, r)
  BY <1>1, <1>3, <1>4, <1>5, <1>6, Zenon DEF Shows
<1> QED
  BY <1>7, Zenon DEF o

\* A header, alone or with a body, and flushed or not.
LEMMA AnswerShows ==
  ASSUME NEW st, NEW lo, NEW he, NEW co, NEW r, Final(r.status)
  PROVE  LET h == WriteHeader(Fresh(st, lo, he, co), r.status) IN
         /\ Shows(finish(h), st, r)
         /\ \A chunk : Suits(chunk, co, r) =>
              /\ Shows(finish(Write(h, chunk)), st, r)
              /\ Shows(finish(PageFlush(Write(h, chunk))), st, r)
<1> DEFINE code == r.status
           h == WriteHeader(Fresh(st, lo, he, co), code)
           re == Noted(lo, code)
           la == Latch(st, code)
<1>1. CASE code \in st
  <2> DEFINE p == WithPage(st, lo, he, code, re)
  <2>1. h = Held(st, lo, he, co, code, re)
    BY <1>1, HeaderFacts, Zenon
  <2>2. /\ finish(Held(st, lo, he, co, code, re)) = p
        /\ finish(p) = p /\ PageFlush(p) = p
    BY <1>1, EndFacts, ZenonT(40)
  <2>3. \A chunk : Write(Held(st, lo, he, co, code, re), chunk) = p
    BY <1>1, WriteFacts, SMTT(30)
  <2>4. Shows(p, st, r)
    BY <1>1, PageShows, Zenon
  <2> HIDE DEF p, h
  <2> QED
    BY <2>1, <2>2, <2>3, <2>4, Zenon DEF h
<1>2. CASE code \notin st
  <2> DEFINE P(bo) == Sent(st, lo, he, co, code, bo, la, re)
  <2>1. h = P(Nothing)
    BY <1>2, HeaderFacts, Zenon
  <2>2. \A bo : finish(P(bo)) = P(bo) /\ PageFlush(P(bo)) = P(bo)
    BY <1>2, EndFacts, SMTT(30)
  <2>3. \A chunk : Write(P(Nothing), chunk) = P(Body(he, chunk))
    BY <1>2, WriteFacts, SMTT(30)
  <2>4. Shows(P(Nothing), st, r)
    BY <1>2, SentShows, Zenon
  <2>5. ASSUME NEW chunk, Suits(chunk, co, r)
        PROVE  Shows(P(Body(he, chunk)), st, r)
    <3>1. Body(he, chunk) = Nothing \/ \E x : Body(he, chunk) = <<x>> /\ Suits(x, co, r)
      BY <2>5 DEF Body
    <3> QED
      BY <1>2, <3>1, SentShows, Zenon
  <2> HIDE DEF P, h
  <2> QED
    BY <2>1, <2>2, <2>3, <2>4, <2>5, Zenon DEF h
<1> QED
  BY <1>1, <1>2, Zenon

\* The writers before anything was written.
LEMMA NoOutputFacts ==
  ASSUME NEW st, NEW lo, NEW he
  PROVE  NoOutput(st, lo, he) = Fresh(st, lo, he, Plain)
BY Zenon DEF NoOutput, Fresh, Output, Plain, Nothing, Unpaged

\* The fields of a reply that is only a status.
LEMMA StatusFacts ==
  ASSUME NEW code
  PROVE  Status(code).status = code /\ Status(code).coding = ""
BY DEF Status, NoReply

\* A handler's own answers.
LEMMA OwnShows ==
  ASSUME NEW st, NEW lo, NEW he, NEW code, Final(code)
  PROVE  LET o == NoOutput(st, lo, he) IN
         /\ Shows(finish(Reply(o, code)), st, Status(code))
         /\ Shows(finish(WriteHeader(o, code)), st, Status(code))
<1> DEFINE o == NoOutput(st, lo, he)
           r == Status(code)
<1>1. r.status = code /\ Final(r.status)
  BY StatusFacts, Zenon
<1>2. o = Fresh(st, lo, he, Plain)
  BY NoOutputFacts, Zenon
<1> HIDE DEF o, r
<1>3. Suits("own", Plain, r)
  BY Zenon DEF Suits
<1>4. /\ Shows(finish(WriteHeader(o, code)), st, r)
      /\ Shows(finish(Write(WriteHeader(o, code), "own")), st, r)
  BY <1>1, <1>2, <1>3, AnswerShows, Zenon
<1> QED
  BY <1>4, Zenon DEF Reply, o, r

\* The reverse proxy, if no informational response came before the answer or nothing
\* takes note of it.
LEMMA ProxiedShows ==
  ASSUME NEW st, NEW lo, NEW he, NEW r, Final(r.status), r.hints => ~ lo /\ st = {}
  PROVE  Shows(finish(Proxied(NoOutput(st, lo, he), r)), st, r)
<1> DEFINE o == NoOutput(st, lo, he)
           early == IF r.hints THEN WriteHeader(o, 103) ELSE o
           fresh == Fresh(st, lo, he, r.coding)
           header == WriteHeader(fresh, r.status)
           body == IF r.empty THEN header ELSE Write(header, "upstream")
           end == IF r.stream /\ ~ r.empty THEN PageFlush(body) ELSE body
<1>1. o = Fresh(st, lo, he, Plain)
  BY NoOutputFacts, Zenon
<1>2. early = o
  <2>1. ASSUME r.hints PROVE WriteHeader(o, 103) = o
    <3> DEFINE early103 == 103
    <3>1. o.logging = lo /\ o.statuses = st
      BY <1>1, OutputFields, SMTT(30) DEF Fresh
    <3>2. ClientHeader(o, early103) = o
      <4>1. early103 < 200
        OBVIOUS
      <4> HIDE DEF early103
      <4> QED
        BY <1>1, <4>1, ClientHeaderFacts, SMTT(30) DEF Fresh
    <3> HIDE DEF o, early103
    <3>3. PageHeader(o, early103) = ClientHeader(o, early103)
      BY <2>1, <3>1, Zenon DEF PageHeader
    <3>4. WriteHeader(o, early103) = PageHeader(o, early103)
      BY <2>1, <3>1, Zenon DEF WriteHeader
    <3> QED
      BY <3>2, <3>3, <3>4, Zenon DEF early103
  <2> QED
    BY <2>1, Zenon
<1>3. [o EXCEPT !.coding = r.coding] = fresh
  BY <1>1 DEF Fresh, Output
<1>4. Proxied(o, r) = end
  BY <1>2, <1>3, Zenon DEF Proxied
<1>5. Suits("upstream", r.coding, r)
  BY Zenon DEF Suits
<1>6. /\ Shows(finish(header), st, r)
      /\ Shows(finish(Write(header, "upstream")), st, r)
      /\ Shows(finish(PageFlush(Write(header, "upstream"))), st, r)
  BY <1>5, AnswerShows, Zenon
<1> HIDE DEF header, o
<1>7. Shows(finish(end), st, r)
  BY <1>6, Zenon
<1> QED
  BY <1>4, <1>7, Zenon DEF o

\* The gzip writer, for an answer that is not streamed.
LEMMA CompressedShows ==
  ASSUME NEW st, NEW lo, NEW he, NEW r, Final(r.status), ~ r.stream
  PROVE  Shows(finish(Compressed(NoOutput(st, lo, he), r)), st, r)
<1> DEFINE o == NoOutput(st, lo, he)
           copied == Fresh(st, lo, he, r.coding)
           zips == r.coding = "" /\ r.worth
           co == IF zips THEN "gzip" ELSE r.coding
           header == WriteHeader(Fresh(st, lo, he, co), r.status)
<1>1. o = Fresh(st, lo, he, Plain)
  BY NoOutputFacts
<1>2. [o EXCEPT !.coding = r.coding] = copied
  BY <1>1 DEF Fresh, Output
<1>3. copied.coding = r.coding
  BY OutputFields, SMTT(30) DEF Fresh
<1>4. [copied EXCEPT !.coding = IF zips THEN "gzip" ELSE @] = Fresh(st, lo, he, co)
  <2>1. [copied EXCEPT !.coding = IF zips THEN "gzip" ELSE @] = [copied EXCEPT !.coding = co]
    BY <1>3, Zenon
  <2> HIDE DEF co
  <2>2. [copied EXCEPT !.coding = co] = Fresh(st, lo, he, co)
    BY DEF Fresh, Output
  <2> QED
    BY <2>1, <2>2, Zenon
<1>5. Compressed(o, r) = CASE zips -> Write(header, "gzip")
                           [] ~ zips /\ ~ r.empty -> Write(header, "upstream")
                           [] OTHER -> header
  BY <1>2, <1>4, Zenon DEF Compressed
<1>6. zips => Suits("gzip", co, r)
  BY Zenon DEF Suits
<1>7. ~ zips => Suits("upstream", co, r)
  BY Zenon DEF Suits
<1>8. /\ Shows(finish(header), st, r)
      /\ \A chunk : Suits(chunk, co, r) => Shows(finish(Write(header, chunk)), st, r)
  BY AnswerShows, Zenon
<1> HIDE DEF header, o, zips, co
<1>9. CASE zips
  <2>1. Compressed(o, r) = Write(header, "gzip")
    BY <1>5, <1>9, Zenon
  <2> QED
    BY <1>6, <1>8, <1>9, <2>1, Zenon DEF o
<1>10. CASE ~ zips /\ ~ r.empty
  <2>1. Compressed(o, r) = Write(header, "upstream")
    BY <1>5, <1>10, Zenon
  <2> QED
    BY <1>7, <1>8, <1>10, <2>1, Zenon DEF o
<1>11. CASE ~ zips /\ r.empty
  <2>1. Compressed(o, r) = header
    BY <1>5, <1>11, Zenon
  <2> QED
    BY <1>8, <2>1, Zenon DEF o
<1> QED
  BY <1>9, <1>10, <1>11, Zenon

-----------------------------------------------------------------------------
(* Every answer *)

\* Every finished request shows the answer that was decided on.
AnswerInv ==
  \A w \in Workers :
    conn[w].pc = "done" /\ ~ Lossy(conn[w]) => Shows(conn[w].out, env.statuses, conn[w].wanted)

\* A step of one worker keeps the others' answers.
LEMMA AnswerOne ==
  ASSUME ConnInv, AnswerInv, env' = env, NEW w \in Workers, NEW d,
         conn' = [conn EXCEPT ![w] = d],
         d.pc = "done" /\ ~ Lossy(d) => Shows(d.out, env.statuses, d.wanted)
  PROVE  AnswerInv'
<1>1. \A v \in Workers : conn'[v] = IF v = w THEN d ELSE conn[v]
  BY DEF ConnInv
<1>2. \A v \in Workers : Lossy(conn[v])' <=> IF v = w THEN Lossy(d) ELSE Lossy(conn[v])
  BY <1>1, SMTT(30) DEF Lossy
<1>3. ASSUME NEW v \in Workers, conn'[v].pc = "done", ~ Lossy(conn[v])'
      PROVE  Shows(conn'[v].out, env.statuses, conn'[v].wanted)
  <2>1. CASE v = w
    BY <1>1, <1>2, <1>3, <2>1, Zenon
  <2>2. CASE v # w
    BY <1>1, <1>2, <1>3, <2>2, Zenon DEF AnswerInv
  <2> QED
    BY <2>1, <2>2, Zenon
<1> QED
  BY <1>3, Zenon DEF AnswerInv

\* A worker that does not answer.
LEMMA AnswerNone ==
  ASSUME ConnInv, AnswerInv, env' = env, NEW w \in Workers, NEW d,
         conn' = [conn EXCEPT ![w] = d], d.pc # "done"
  PROVE  AnswerInv'
BY AnswerOne, Zenon

\* An answer that reaches the client of c as it is.
Spared(c, r) ==
  LET gzip == env.compresses /\ c.req.gzip /\ ~ c.req.grpc
  IN /\ ~ (r.hints /\ ~ gzip /\ (env.logging \/ env.statuses # {}))
     /\ ~ (r.stream /\ gzip)

\* A worker that does.
LEMMA AnswerDone ==
  ASSUME ConnInv, AnswerInv, env' = env, NEW w \in Workers, NEW c, Conn(c), NEW o, NEW r,
         conn' = [conn EXCEPT ![w] = Done(c, o, r)],
         Spared(c, r) => Shows(finish(o), env.statuses, r)
  PROVE  AnswerInv'
<1> DEFINE d == Done(c, o, r)
<1>1. d.out = finish(o) /\ d.wanted = r /\ d.req = c.req
  <2>1. d = [pc |-> "done", req |-> c.req, place |-> c.place, hook |-> c.hook, ruled |-> c.ruled,
             drained |-> c.drained, out |-> finish(o), wanted |-> r, ids |-> c.ids]
    BY DoneFields, Zenon
  <2> HIDE DEF d
  <2> QED
    BY <2>1, Zenon
<1> HIDE DEF d
<1>2. ~ Lossy(d) => Shows(d.out, env.statuses, d.wanted)
  BY <1>1, Zenon DEF Lossy, Spared
<1> QED
  BY <1>2, AnswerOne, Zenon DEF d

\* The output of a worker before it answers.
LEMMA OutFacts ==
  ASSUME ConnInv, NEW c, Sound(env, c), c.pc \in {"hook", "serve"}
  PROVE  /\ Conn(c) /\ c.out = NoOutput(env.statuses, env.logging, c.req.method = "HEAD")
         /\ \A s \in env.statuses : Final(s) /\ s # 200
         /\ Passed(c).pc = c.pc
<1>1. Conn(c) /\ c.out = NoOutput(env.statuses, env.logging, c.req.method = "HEAD")
  BY Zenon DEF Sound
<1>2. \A s \in env.statuses : Final(s) /\ s # 200
  BY RequestPathAssumption, SMTT(30) DEF ConnInv, IsEnvironment
<1>3. Passed(c).pc = c.pc
  BY <1>1, PassedFields, SMTT(30)
<1> QED
  BY <1>1, <1>2, <1>3, Zenon

\* The answers that a hook or a handler makes itself.
LEMMA AnswerOwn ==
  ASSUME ConnInv, AnswerInv, env' = env, NEW w \in Workers, NEW c, Sound(env, c),
         c.pc \in {"hook", "serve"}, NEW code, Final(code),
         \/ conn' = [conn EXCEPT ![w] = Refused(c, code)]
         \/ conn' = [conn EXCEPT ![w] = Done(c, WriteHeader(c.out, code), Status(code))]
  PROVE  AnswerInv'
<1> DEFINE he == c.req.method = "HEAD"
           o == NoOutput(env.statuses, env.logging, he)
<1>1. Conn(c) /\ c.out = o
  BY OutFacts
<1> HIDE DEF he
<1>2. /\ Shows(finish(Reply(o, code)), env.statuses, Status(code))
      /\ Shows(finish(WriteHeader(o, code)), env.statuses, Status(code))
  BY OwnShows, Zenon
<1> HIDE DEF o
<1>3. CASE conn' = [conn EXCEPT ![w] = Refused(c, code)]
  <2>1. conn' = [conn EXCEPT ![w] = Done(c, Reply(o, code), Status(code))]
    BY <1>1, <1>3, Zenon DEF Refused
  <2> QED
    BY <1>1, <1>2, <2>1, AnswerDone, Zenon
<1>4. CASE conn' = [conn EXCEPT ![w] = Done(c, WriteHeader(c.out, code), Status(code))]
  BY <1>1, <1>2, <1>4, AnswerDone, Zenon
<1> QED
  BY <1>3, <1>4, Zenon

\* An arrival, which answers 404 if there is no location.
LEMMA AnswerArrive ==
  ASSUME ConnInv, AnswerInv, NEW w \in Workers, NEW q \in env.requests, Arrive(w, q)
  PROVE  AnswerInv'
<1> DEFINE p == route(env.site, q.host, q.path)
           a == Arrived(env, q)
           b == [Blank EXCEPT !.pc = "hook", !.req = q, !.place = p,
                   !.out = NoOutput(env.statuses, env.logging /\ p[2] # 0, q.method = "HEAD"),
                   !.ids = RequestIDs(q, env.statuses # {})]
           lo == env.logging /\ p[2] # 0
           he == q.method = "HEAD"
           code == 404
<1>1. b = a
  BY ArrivedFields, Zenon
<1>2. /\ env' = env
      /\ conn' = [conn EXCEPT ![w] = IF p[2] # 0 THEN b ELSE Done(b, Reply(b.out, code), Status(code))]
  BY DEF Arrive
<1>3. Conn(a) /\ a.pc = "hook"
  <2>1. env.logging \in BOOLEAN
    BY RequestPathAssumption, Zenon DEF ConnInv, IsEnvironment
  <2> QED
    BY <2>1, ArrivedSound, Zenon
<1>4. a.out = NoOutput(env.statuses, lo, he)
  BY Zenon DEF Arrived
<1>5. Final(code)
  BY DEF Final
<1> HIDE DEF p, a, b, lo, he, code
<1>6. Shows(finish(Reply(a.out, code)), env.statuses, Status(code))
  BY <1>4, <1>5, OwnShows, Zenon
<1>7. CASE p[2] # 0
  <2>1. conn' = [conn EXCEPT ![w] = a] /\ a.pc # "done"
    BY <1>1, <1>2, <1>3, <1>7, SMTT(30)
  <2> QED
    BY <1>2, <2>1, AnswerNone, Zenon
<1>8. CASE p[2] = 0
  <2>1. conn' = [conn EXCEPT ![w] = Done(a, Reply(a.out, code), Status(code))]
    BY <1>1, <1>2, <1>8, Zenon
  <2> QED
    BY <1>2, <1>3, <1>6, <2>1, AnswerDone, Zenon
<1> QED
  BY <1>7, <1>8, Zenon

\* The hooks, each of which may refuse the request.
LEMMA AnswerHooks ==
  ASSUME ConnInv, AnswerInv, NEW w \in Workers,
         RateLimitHook(w) \/ CORSHook(w) \/ FirewallHook(w) \/ HooksDone(w)
  PROVE  AnswerInv'
<1>0. Sound(env, conn[w]) /\ env' = env
  BY Zenon DEF ConnInv, RateLimitHook, CORSHook, FirewallHook, HooksDone
<1> DEFINE limit == 429
           preflight == 204
<1>1. Final(limit) /\ Final(preflight)
  BY SMTT(30) DEF Final
<1>2. CASE RateLimitHook(w)
  <2>1. /\ conn[w].pc = "hook"
        /\ \/ conn' = [conn EXCEPT ![w] = Passed(conn[w])]
           \/ conn' = [conn EXCEPT ![w] = Refused(conn[w], limit)]
    BY <1>2, ChargeFacts, SMTT(30) DEF RateLimitHook, Runs
  <2>2. Passed(conn[w]).pc # "done"
    BY <1>0, <2>1, OutFacts, SMTT(30)
  <2> HIDE DEF limit, preflight
  <2> QED
    BY <1>0, <1>1, <2>1, <2>2, AnswerOwn, AnswerNone, SMTT(30)
<1>3. CASE CORSHook(w)
  <2>1. /\ conn[w].pc = "hook"
        /\ \/ conn' = [conn EXCEPT ![w] = Passed(conn[w])]
           \/ conn' = [conn EXCEPT ![w] = Done(conn[w], WriteHeader(conn[w].out, preflight), Status(preflight))]
    BY <1>3, Zenon DEF CORSHook, Runs
  <2>2. Passed(conn[w]).pc # "done"
    BY <1>0, <2>1, OutFacts, Zenon
  <2> HIDE DEF limit, preflight
  <2> QED
    BY <1>0, <1>1, <2>1, <2>2, AnswerOwn, AnswerNone, Zenon
<1>4. CASE FirewallHook(w)
  <2>1. PICK c, code :
          /\ Sound(env, c) /\ c.pc = "hook"
          /\ Final(code) \/ conn' = [conn EXCEPT ![w] = Passed(c)]
          /\ \/ UNCHANGED limitVars /\ conn' = [conn EXCEPT ![w] = Passed(c)]
             \/ UNCHANGED limitVars /\ conn' = [conn EXCEPT ![w] = Refused(c, code)]
             \/ \E k \in Keys : \E p \in Params[k] :
                  k[1] = "waf" /\ Charge(w, c, k, p, code)
    BY <1>4, FirewallFacts, Zenon
  <2>2. \/ conn' = [conn EXCEPT ![w] = Passed(c)]
        \/ conn' = [conn EXCEPT ![w] = Refused(c, code)]
    BY <2>1, ChargeFacts, SMTT(30)
  <2>3. Passed(c).pc # "done"
    BY <2>1, OutFacts, Zenon
  <2> QED
    BY <1>0, <2>1, <2>2, <2>3, AnswerOwn, AnswerNone, Zenon
<1>5. CASE HooksDone(w)
  <2> DEFINE c == conn[w]
             d == [c EXCEPT !.pc = "serve"]
  <2>1. conn' = [conn EXCEPT ![w] = d]
    BY <1>5, Zenon DEF HooksDone
  <2>2. d.pc = "serve"
    <3>1. Conn(c)
      BY <1>0, Zenon DEF Sound
    <3> HIDE DEF c
    <3> QED
      BY <3>1, Zenon DEF Conn
  <2> HIDE DEF d
  <2>3. d.pc # "done"
    BY <2>2, Zenon
  <2> QED
    BY <1>0, <2>1, <2>3, AnswerNone, Zenon
<1> QED
  BY <1>2, <1>3, <1>4, <1>5, Zenon

\* An upstream's answer, or the proxy's own in its place.
LEMMA AnswerForward ==
  ASSUME ConnInv, AnswerInv, NEW w \in Workers, NEW r, Forward(w, r), Final(r.status)
  PROVE  AnswerInv'
<1> DEFINE c == conn[w]
           he == c.req.method = "HEAD"
           o == NoOutput(env.statuses, env.logging, he)
           gzip == env.compresses /\ c.req.gzip /\ ~ c.req.grpc
           end == IF gzip THEN Compressed(o, r) ELSE Proxied(o, r)
<1>1. /\ c.pc = "serve" /\ env' = env
      /\ conn' = [conn EXCEPT ![w] = Done(c, IF gzip THEN Compressed(c.out, r) ELSE Proxied(c.out, r), r)]
  BY Zenon DEF Forward, Answer
<1>2. Sound(env, c)
  BY Zenon DEF ConnInv
<1>3. Conn(c) /\ c.out = o
  BY <1>1, <1>2, OutFacts, Zenon
<1>4. conn' = [conn EXCEPT ![w] = Done(c, end, r)]
  BY <1>1, <1>3, Zenon
<1> HIDE DEF he
<1>5. ~ r.stream => Shows(finish(Compressed(o, r)), env.statuses, r)
  BY CompressedShows, Zenon
<1>6. (r.hints => ~ env.logging /\ env.statuses = {}) => Shows(finish(Proxied(o, r)), env.statuses, r)
  BY ProxiedShows, Zenon
<1> HIDE DEF o
<1>7. ASSUME ~ (r.hints /\ ~ gzip /\ (env.logging \/ env.statuses # {})), ~ (r.stream /\ gzip)
      PROVE  Shows(finish(end), env.statuses, r)
  <2>1. CASE gzip
    BY <1>5, <1>7, <2>1, Zenon
  <2>2. CASE ~ gzip
    BY <1>6, <1>7, <2>2, Zenon
  <2> QED
    BY <2>1, <2>2, Zenon
<1> HIDE DEF end
<1>8. Spared(c, r) => Shows(finish(end), env.statuses, r)
  BY <1>7, Zenon DEF Spared
<1>9. env' = env
  BY <1>1, Zenon
<1> HIDE DEF c, gzip
<1> QED
  BY <1>3, <1>4, <1>8, <1>9, AnswerDone, Zenon

\* The handler, in each of its four ways to answer.
LEMMA AnswerServe ==
  ASSUME ConnInv, AnswerInv, NEW w \in Workers,
         ServePreflight(w) \/ ServeRedirect(w) \/ ServeUpstream(w) \/ ServeFails(w)
  PROVE  AnswerInv'
<1> DEFINE c == conn[w]
<1>0. Sound(env, c) /\ c.pc = "serve" /\ env' = env
  BY DEF ConnInv, ServePreflight, ServeRedirect, ServeUpstream, ServeFails, Forward, Answer
<1>1. CASE ServePreflight(w)
  <2> DEFINE ok == 200
             he == c.req.method = "HEAD"
  <2>1. conn' = [conn EXCEPT ![w] = Done(c, c.out, Status(ok))]
    BY <1>1, Zenon DEF ServePreflight, Answer
  <2>2. /\ Conn(c) /\ c.out = NoOutput(env.statuses, env.logging, he)
        /\ \A s \in env.statuses : Final(s) /\ s # 200
    BY <1>0, OutFacts, SMTT(30)
  <2>3. Status(ok).status = 200
    BY StatusFacts, Zenon
  <2> HIDE DEF he, ok
  <2>4. c.out = Fresh(env.statuses, env.logging, he, Plain)
    BY <2>2, NoOutputFacts, Zenon
  <2>5. Shows(finish(c.out), env.statuses, Status(ok))
    BY <2>2, <2>3, <2>4, SilentShows, SMTT(30)
  <2> QED
    BY <1>0, <2>1, <2>2, <2>5, AnswerDone, Zenon
<1>2. CASE ServeRedirect(w)
  <2> DEFINE code == Location(c).redirect
  <2>1. /\ code # 0
        /\ \/ conn' = [conn EXCEPT ![w] = Done(c, Reply(c.out, code), Status(code))]
           \/ conn' = [conn EXCEPT ![w] = Done(c, WriteHeader(c.out, code), Status(code))]
    BY <1>2, Zenon DEF ServeRedirect, Answer, Redirects
  <2>2. IsLocation(Location(c))
    BY <1>0, ServingFacts, SMTT(30)
  <2>3. Final(code)
    BY <2>1, <2>2, Zenon DEF IsLocation
  <2> HIDE DEF code
  <2>4. \/ conn' = [conn EXCEPT ![w] = Refused(c, code)]
        \/ conn' = [conn EXCEPT ![w] = Done(c, WriteHeader(c.out, code), Status(code))]
    BY <2>1, Zenon DEF Refused
  <2> QED
    BY <1>0, <2>3, <2>4, AnswerOwn, Zenon
<1>3. CASE ServeUpstream(w)
  <2>1. PICK r \in env.replies : Forward(w, r)
    BY <1>3, Zenon DEF ServeUpstream
  <2>2. Final(r.status)
    BY RequestPathAssumption, Zenon DEF ConnInv, IsEnvironment
  <2> QED
    BY <2>1, <2>2, AnswerForward, Zenon
<1>4. CASE ServeFails(w)
  <2> DEFINE r == [NoReply EXCEPT !.status = 502, !.empty = FALSE]
  <2>1. Forward(w, r)
    BY <1>4 DEF ServeFails
  <2>2. r.status = 502
    BY DEF NoReply
  <2>3. Final(r.status)
    BY <2>2 DEF Final
  <2> HIDE DEF r
  <2> QED
    BY <2>1, <2>3, AnswerForward, Zenon
<1> QED
  BY <1>1, <1>2, <1>3, <1>4, Zenon

\* AnswerInv is an invariant.
LEMMA AnswerAlways == Spec => []AnswerInv
<1>1. Init => AnswerInv
  <2> SUFFICES ASSUME Init, NEW w \in Workers PROVE conn[w].pc # "done"
    BY Zenon DEF AnswerInv
  <2>1. conn[w] = Blank
    BY Zenon DEF Init
  <2>2. Blank.pc = "idle"
    BY Zenon DEF Blank
  <2> QED
    BY <2>1, <2>2, Zenon
<1>2. ConnInv /\ AnswerInv /\ [Next]_vars => AnswerInv'
  <2> SUFFICES ASSUME ConnInv, AnswerInv, [Next]_vars PROVE AnswerInv'
    BY Zenon
  <2>1. ASSUME NEW w \in Workers, Leave(w) PROVE AnswerInv'
    <3>1. conn' = [conn EXCEPT ![w] = Blank] /\ env' = env
      BY <2>1, Zenon DEF Leave
    <3>2. Blank.pc # "done"
      BY Zenon DEF Blank
    <3> QED
      BY <3>1, <3>2, AnswerNone, Zenon
  <2>2. ASSUME env' = env, conn' = conn PROVE AnswerInv'
    BY <2>2, Zenon DEF AnswerInv, Lossy
  <2>3. Wait \/ UNCHANGED vars => env' = env /\ conn' = conn
    BY Zenon DEF Wait, vars
  <2> QED
    BY <2>1, <2>2, <2>3, AnswerArrive, AnswerHooks, AnswerServe, Zenon DEF Next
<1> QED
  BY <1>1, <1>2, ConnAlways, PTL DEF Spec

\* The client gets the status that was decided on, the access line has the same, and the
\* body is what the header says or one error page with the id of the access line: for any
\* site, configuration of the plugins, request and answer, the known losses apart.
THEOREM ResponsesReachClients == Spec => []ClientSeesResponse
<1>1. ConnInv /\ AnswerInv => ClientSeesResponse
  <2> SUFFICES ASSUME ConnInv, AnswerInv, NEW c \in Serving, c.pc = "done", ~ Lossy(c)
               PROVE  LET o == c.out
                      IN /\ o.sent = c.wanted.status
                         /\ o.logging => statusCode(o) = c.wanted.status
                         /\ Len(o.body) <= 1
                         /\ o.paged <=> c.wanted.status \in env.statuses
                         /\ o.paged => /\ o.sentCoding = ""
                                       /\ \A i \in DOMAIN o.body : o.body[i] = "page"
                                       /\ o.logging => c.ids.page = c.ids.line
                         /\ \A i \in DOMAIN o.body :
                              o.body[i] = "upstream" => o.sentCoding = c.wanted.coding
                         /\ o.body = <<"gzip">> => o.sentCoding = "gzip" /\ c.wanted.coding = ""
    BY Zenon DEF ClientSeesResponse
  <2> DEFINE o == c.out
  <2>0. PICK w \in Workers : c = conn[w]
    BY Zenon DEF Serving
  <2>1. Shows(o, env.statuses, c.wanted)
    BY <2>0, Zenon DEF AnswerInv
  <2>2. c.ids = RequestIDs(c.req, env.statuses # {})
    BY <2>0, Zenon DEF ConnInv, Sound
  <2>3. env.statuses # {} => c.ids.page = c.ids.line
    <3> DEFINE page == IF c.req.id = "" THEN "made for the page" ELSE c.req.id
    <3>1. env.statuses # {} => c.ids = [page |-> page, line |-> page]
      BY <2>2, Zenon DEF RequestIDs
    <3> HIDE DEF page
    <3> QED
      BY <3>1
  <2>4. o.paged => env.statuses # {}
    BY <2>1, Zenon DEF Shows
  <2> QED
    BY <2>1, <2>3, <2>4, Zenon DEF Shows
<1> QED
  BY <1>1, ConnAlways, AnswerAlways, PTL
=============================================================================
