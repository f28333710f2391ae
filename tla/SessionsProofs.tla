--------------------------- MODULE SessionsProofs ---------------------------
(***************************************************************************)
(* Why a browser that one refresher at a time works for keeps its session, *)
(* for any number of tokens, tabs, page requests and losses.               *)
(*                                                                         *)
(* All that is under way at one time is of one family, since a login waits *)
(* until nothing is.  As long as that family has had no overlap and nothing*)
(* was lost, it has at most one flight; the cookie is the token of that    *)
(* flight or the one it created; and a spent token is still in the cookie  *)
(* only while the response that replaces it is on its way.                 *)
(***************************************************************************)
EXTENDS Sessions, TLAPS

\* What the rows say of one another.
RowsKnown ==
    /\ \A k \in expired : row[k] # "unused"
    /\ \A k \in Tokens : row[k] = "purged" => k \in expired
    /\ \A k \in Tokens : family[k] # None => row[family[k]] # "unused"
    /\ jar # None => row[jar] # "unused"

\* What a flight has in its hands, by how far its call is.
FlightKnown(c) ==
    call[c] # NoFlight =>
       /\ c \in Tokens => call[c].tok = c
       /\ row[call[c].tok] # "unused"
       /\ call[c].new # None => /\ row[call[c].new] # "unused"
                                /\ call[c].new # call[c].tok
                                /\ family[call[c].new] = family[call[c].tok]
       /\ call[c].pc \in {"sent", "rotating", "reuse"} => call[c].new = None /\ call[c].out = None
       /\ call[c].pc = "revoking" => call[c].new # None /\ call[c].out = None
       /\ call[c].pc \in {"replied", "held"} => (call[c].out = "ok" <=> call[c].new # None)
       /\ call[c].out = "ok" => row[call[c].tok] = "revoked"

\* What a page request has: the proxy keeps the flight that answers it.
NavKnown(n) ==
    nav[n] # NoNav =>
       /\ row[nav[n].tok] # "unused"
       /\ nav[n].pc = "waiting" => call[nav[n].tok] # NoFlight
       /\ nav[n].pc = "answered" => /\ call[nav[n].tok].pc = "held"
                                    /\ nav[n].new = call[nav[n].tok].new

\* Page requests and flights of the proxy are all about one token.
OneTokenAtProxy ==
    /\ \A n, m \in Navs : nav[n] # NoNav /\ nav[m] # NoNav => nav[n].tok = nav[m].tok
    /\ \A n \in Navs, k \in Tokens : nav[n] # NoNav /\ call[k] # NoFlight => nav[n].tok = k
    /\ \A j, k \in Tokens : call[j] # NoFlight /\ call[k] # NoFlight => j = k

\* While the access token is missing, whatever is under way spends the cookie.
AllSpendTheJar ==
    ~access /\ jar # None =>
       /\ \A c \in Callers : call[c] # NoFlight => call[c].tok = jar
       /\ \A n \in Navs : nav[n] # NoNav => nav[n].tok = jar

\* Whatever is under way, and the cookie, are of family f.
OfFamily(f) ==
    /\ jar # None => family[jar] = f
    /\ \A c \in Callers : call[c] # NoFlight => family[call[c].tok] = f
    /\ \A n \in Navs : nav[n] # NoNav => family[nav[n].tok] = f

-----------------------------------------------------------------------------
(* The parts that hold of a family with no overlap when nothing was lost *)

TabAlone ==
    \A t \in Tabs : call[t] # NoFlight => /\ \A c \in Callers \ {t} : call[c] = NoFlight
                                          /\ \A n \in Navs : nav[n] = NoNav

\* Somebody waits for what the proxy asks.
PageWaits ==
    \A k \in Tokens : call[k].pc \notin {"none", "held"} =>
       \E n \in Navs : nav[n].pc = "waiting" /\ nav[n].tok = k

\* A token that was rotated away leaves the cookie with the response.
ReplacementComes ==
    \A c \in Callers : call[c].out = "ok" /\ call[c].tok = jar =>
       IF c \in Tabs THEN call[c].pc = "replied" ELSE \E n \in Navs : nav[n].tok = c

\* The cookie is the token of the flight there is, or the one it created.
JarOfFlight ==
    /\ \A c \in Callers : call[c] # NoFlight =>
          /\ jar \in {None, call[c].tok, call[c].new}
          /\ call[c].pc # "held" => jar \in {None, call[c].tok}
    /\ \A n \in Navs : nav[n] # NoNav /\ call[nav[n].tok].pc # "held" => jar \in {None, nav[n].tok}

\* Only a rotation, the end of the session or an overlap revokes a token.
Good(k) == row[k] # "revoked" \/ Ended(k)
RevokedForAReason ==
    /\ jar # None => Good(jar) \/ \E c \in Callers : call[c].out = "ok" /\ call[c].tok = jar
    /\ \A c \in Callers : /\ call[c].pc = "sent" => Good(call[c].tok)
                          /\ call[c].new # None => Good(call[c].new)
                          /\ call[c].pc = "reuse" => Ended(call[c].tok)
                          /\ call[c].out = "rejected" => Ended(call[c].tok)
    /\ \A n \in Navs : nav[n] # NoNav /\ call[nav[n].tok] = NoFlight => Good(nav[n].tok)

\* No live token of the family is out of everybody's hands.
Current == \/ jar # None
           \/ \E c \in Callers : call[c] # NoFlight
           \/ \E n \in Navs : nav[n] # NoNav
Handled(k) == \/ k = jar
              \/ \E c \in Callers : call[c] # NoFlight /\ k \in {call[c].tok, call[c].new}
              \/ \E n \in Navs : nav[n] # NoNav /\ k = nav[n].tok
LiveHandled(f) ==
    Current => \A k \in Tokens : row[k] = "live" /\ family[k] = f => Handled(k)

Clean(f) == losses = 0 /\ f \notin overlapped
CleanInv(f) ==
    /\ TabAlone
    /\ PageWaits
    /\ ReplacementComes
    /\ JarOfFlight
    /\ RevokedForAReason
    /\ LiveHandled(f)

Shape ==
    /\ TypeOK
    /\ RowsKnown
    /\ \A c \in Callers : FlightKnown(c)
    /\ \A n \in Navs : NavKnown(n)
    /\ OneTokenAtProxy
    /\ AllSpendTheJar

FamilyInv(f) == OfFamily(f) /\ (Clean(f) => CleanInv(f))

IInv == Shape /\ \E f \in Tokens \cup {None} : FamilyInv(f)
-----------------------------------------------------------------------------
(* The shape *)

\* The fields of a flight, and of none.
LEMMA FlightFields ==
    ASSUME TypeOK, NEW c \in Callers
    PROVE  /\ call[c] = NoFlight \/ call[c] \in Flight
           /\ call[c] # NoFlight <=> call[c].pc # "none"
           /\ call[c] # NoFlight => /\ call[c].tok \in Tokens /\ call[c].tok \in Callers
                                    /\ call[c].new \in Tokens \cup {None}
                                    /\ call[c].out \in {"ok", "rejected", "failed", None}
           /\ call[c] = NoFlight => call[c].tok = None /\ call[c].new = None /\ call[c].out = None
  BY NamesAssumption DEF TypeOK, Flight, NoFlight, Callers

\* The fields of a page request, and of none.
LEMMA NavFields ==
    ASSUME TypeOK, NEW n \in Navs
    PROVE  /\ nav[n] = NoNav \/ nav[n] \in Nav
           /\ nav[n] # NoNav <=> nav[n].pc # "idle"
           /\ nav[n] # NoNav => /\ nav[n].tok \in Tokens /\ nav[n].tok \in Callers
                                /\ nav[n].new \in Tokens \cup {None}
           /\ nav[n] = NoNav => nav[n].tok = None /\ nav[n].new = None
  BY NamesAssumption DEF TypeOK, Nav, NoNav, Callers

\* A new flight: "sent", with the token it spends and nothing else.
LEMMA Posted ==
    ASSUME TypeOK, NEW c \in Callers, NEW k \in Tokens, Post(c, k)
    PROVE  /\ call' \in [Callers -> Flight \cup {NoFlight}]
           /\ call'[c] # NoFlight
           /\ call'[c].pc = "sent" /\ call'[c].tok = k /\ call'[c].new = None /\ call'[c].out = None
           /\ \A d \in Callers \ {c} : call'[d] = call[d]
           /\ overlapped' = IF OthersAtWork(c) THEN overlapped \cup {family[k]} ELSE overlapped
<1>1. call' = [call EXCEPT ![c] = [pc |-> "sent", tok |-> k, new |-> None, out |-> None]]
  BY DEF Post
<1>2. overlapped' = IF OthersAtWork(c) THEN overlapped \cup {family[k]} ELSE overlapped
  BY DEF Post, NoteOverlap
<1> QED
  BY <1>1, <1>2 DEF TypeOK, Flight, NoFlight

\* A flight one step further: nothing but its pc changes.
LEMMA Advanced ==
    ASSUME TypeOK, NEW c \in Callers, call[c] # NoFlight,
           NEW pc \in {"sent", "rotating", "revoking", "reuse", "replied", "held"}, Advance(c, pc)
    PROVE  /\ call' \in [Callers -> Flight \cup {NoFlight}]
           /\ call'[c] # NoFlight
           /\ call'[c].pc = pc /\ call'[c].out = call[c].out
           /\ call'[c].tok = call[c].tok /\ call'[c].new = call[c].new
           /\ \A d \in Callers \ {c} : call'[d] = call[d]
<1>1. call \in [Callers -> Flight \cup {NoFlight}] /\ call[c] \in Flight
  BY DEF TypeOK
<1> DEFINE r == [call[c] EXCEPT !.pc = pc]
<1>2. /\ r \in Flight /\ r # NoFlight
      /\ r.pc = pc /\ r.out = call[c].out /\ r.tok = call[c].tok /\ r.new = call[c].new
  BY <1>1 DEF Flight, NoFlight
<1>3. call' = [call EXCEPT ![c] = r]
  BY DEF Advance
<1> HIDE DEF r
<1> QED
  BY ONLY <1>1, <1>2, <1>3, c \in Callers

\* The reply of the API: the outcome is known.
LEMMA Replied ==
    ASSUME TypeOK, NEW c \in Callers, call[c] # NoFlight,
           NEW out \in {"ok", "rejected", "failed"}, Reply(c, out)
    PROVE  /\ call' \in [Callers -> Flight \cup {NoFlight}]
           /\ call'[c] # NoFlight
           /\ call'[c].pc = "replied" /\ call'[c].out = out
           /\ call'[c].tok = call[c].tok /\ call'[c].new = call[c].new
           /\ \A d \in Callers \ {c} : call'[d] = call[d]
<1>1. call \in [Callers -> Flight \cup {NoFlight}] /\ call[c] \in Flight
  BY DEF TypeOK
<1> DEFINE r == [call[c] EXCEPT !.pc = "replied", !.out = out]
<1>2. /\ r \in Flight /\ r # NoFlight
      /\ r.pc = "replied" /\ r.out = out /\ r.tok = call[c].tok /\ r.new = call[c].new
  BY <1>1 DEF Flight, NoFlight
<1>3. call' = [call EXCEPT ![c] = r]
  BY DEF Reply
<1> HIDE DEF r
<1> QED
  BY ONLY <1>1, <1>2, <1>3, c \in Callers

\* What the read of the row decides.
LEMMA ReadDecides ==
    ASSUME TypeOK, NEW c \in Callers, Read(c)
    PROVE  /\ call' \in [Callers -> Flight \cup {NoFlight}]
           /\ call[c] # NoFlight /\ call'[c] # NoFlight /\ call[c].pc = "sent"
           /\ call'[c].tok = call[c].tok /\ call'[c].new = call[c].new
           /\ \A d \in Callers \ {c} : call'[d] = call[d]
           /\ \/ /\ row[call[c].tok] = "purged" \/ call[c].tok \in expired
                 /\ call'[c].pc = "replied" /\ call'[c].out = "rejected"
              \/ /\ row[call[c].tok] = "revoked"
                 /\ call'[c].pc = "reuse" /\ call'[c].out = call[c].out
              \/ call'[c].pc = "rotating" /\ call'[c].out = call[c].out
           /\ UNCHANGED <<row, family, expired, nav, tab, leaving, jar, access, losses,
                          overlapped, loggedOut>>
<1>1. call[c] # NoFlight /\ call[c].pc = "sent"
  BY DEF Read, NoFlight
<1>2. \/ (row[call[c].tok] = "purged" \/ call[c].tok \in expired) /\ Reply(c, "rejected")
      \/ row[call[c].tok] = "revoked" /\ Advance(c, "reuse")
      \/ Advance(c, "rotating")
  BY DEF Read
<1>3. UNCHANGED <<row, family, expired, nav, tab, leaving, jar, access, losses, overlapped, loggedOut>>
  BY DEF Read, rows, browser, history
<1>4. CASE (row[call[c].tok] = "purged" \/ call[c].tok \in expired) /\ Reply(c, "rejected")
  BY ONLY TypeOK, c \in Callers, <1>1, <1>3, <1>4, Replied
<1>5. CASE row[call[c].tok] = "revoked" /\ Advance(c, "reuse")
  BY ONLY TypeOK, c \in Callers, <1>1, <1>3, <1>5, Advanced
<1>6. CASE Advance(c, "rotating")
  BY ONLY TypeOK, c \in Callers, <1>1, <1>3, <1>6, Advanced
<1> QED
  BY ONLY <1>2, <1>4, <1>5, <1>6

\* Reuse: the call is refused and what was live of its family is not any more.
LEMMA RevokesFamily ==
    ASSUME TypeOK, NEW c \in Callers, FlightKnown(c), RevokeFamily(c)
    PROVE  /\ call[c] # NoFlight /\ call[c].pc = "reuse"
           /\ call[c].new = None /\ call[c].out = None /\ call[c].tok \in Tokens
           /\ call' \in [Callers -> Flight \cup {NoFlight}]
           /\ call'[c] # NoFlight /\ call'[c].pc = "replied" /\ call'[c].out = "rejected"
           /\ call'[c].tok = call[c].tok /\ call'[c].new = call[c].new
           /\ \A d \in Callers \ {c} : call'[d] = call[d]
           /\ row' \in [Tokens -> {"unused", "live", "revoked", "purged"}]
           /\ \A k \in Tokens : row'[k] = row[k] \/ (row[k] = "live" /\ row'[k] = "revoked")
           /\ UNCHANGED <<family, expired, nav, tab, leaving, jar, access, losses,
                          overlapped, loggedOut>>
<1>1. /\ call[c].pc = "reuse" /\ call[c] # NoFlight /\ Reply(c, "rejected")
      /\ UNCHANGED <<family, expired, nav, tab, leaving, jar, access, losses, overlapped, loggedOut>>
      /\ row' = [k \in Tokens |->
                   IF row[k] = "live" /\ family[k] = family[call[c].tok] THEN "revoked" ELSE row[k]]
  BY DEF RevokeFamily, browser, history, NoFlight
<1>2. /\ call' \in [Callers -> Flight \cup {NoFlight}]
      /\ call'[c] # NoFlight /\ call'[c].pc = "replied" /\ call'[c].out = "rejected"
      /\ call'[c].tok = call[c].tok /\ call'[c].new = call[c].new
      /\ \A d \in Callers \ {c} : call'[d] = call[d]
  BY ONLY <1>1, TypeOK, c \in Callers, Replied
<1>3. call[c].new = None /\ call[c].out = None /\ call[c].tok \in Tokens
  BY ONLY <1>1, TypeOK, c \in Callers, FlightKnown(c), FlightFields DEF FlightKnown
<1>4. /\ row' \in [Tokens -> {"unused", "live", "revoked", "purged"}]
      /\ \A k \in Tokens : row'[k] = row[k] \/ (row[k] = "live" /\ row'[k] = "revoked")
  BY ONLY <1>1, TypeOK DEF TypeOK
<1> QED
  BY ONLY <1>1, <1>2, <1>3, <1>4

\* A rotation creates k, a token in nobody's hands yet.
CreatesToken(c, k) ==
    /\ row[k] = "unused" /\ family[k] = None
    /\ row' = [row EXCEPT ![k] = "live"]
    /\ family' = [family EXCEPT ![k] = family[call[c].tok]]
    /\ call' \in [Callers -> Flight \cup {NoFlight}]
    /\ call[c] # NoFlight /\ call[c].pc = "rotating" /\ call[c].new = None /\ call[c].out = None
    /\ call'[c] # NoFlight /\ call'[c].pc = "revoking" /\ call'[c].out = None
    /\ call'[c].tok = call[c].tok /\ call'[c].new = k
    /\ \A d \in Callers \ {c} : call'[d] = call[d]
    /\ \A d \in Callers : call[d] # NoFlight =>
          /\ call[d].tok # k /\ call[d].new # k
          /\ call[d].tok \in Tokens /\ call[d].new \in Tokens \cup {None}
    /\ \A n \in Navs : nav[n] # NoNav => nav[n].tok # k /\ nav[n].tok \in Tokens
    /\ jar # k /\ jar \in Tokens \cup {None}
    /\ UNCHANGED <<expired, nav, tab, leaving, jar, access, losses, overlapped, loggedOut>>

\* The INSERT of a rotation takes an unused token into the family of the old one.
LEMMA Creates ==
    ASSUME Shape, NEW c \in Callers, Create(c)
    PROVE  \E k \in Tokens : CreatesToken(c, k)
<1>0. TypeOK
  BY DEF Shape
<1>1. /\ call[c].pc = "rotating" /\ call[c] # NoFlight
      /\ UNCHANGED <<expired, nav, tab, leaving, jar, access, losses, overlapped, loggedOut>>
  BY DEF Create, browser, history, NoFlight
<1>2. PICK k \in Unused : /\ row' = [row EXCEPT ![k] = "live"]
                          /\ family' = [family EXCEPT ![k] = family[call[c].tok]]
                          /\ call' = [call EXCEPT ![c].pc = "revoking", ![c].new = k]
  BY DEF Create
<1>3. k \in Tokens /\ row[k] = "unused" /\ family[k] = None
  BY ONLY <1>0 DEF TypeOK, Unused
<1>4. call[c].new = None /\ call[c].out = None
  BY ONLY <1>1, Shape, c \in Callers DEF Shape, FlightKnown
<1>5. /\ call' \in [Callers -> Flight \cup {NoFlight}]
      /\ call'[c] # NoFlight /\ call'[c].pc = "revoking" /\ call'[c].out = None
      /\ call'[c].tok = call[c].tok /\ call'[c].new = k
      /\ \A d \in Callers \ {c} : call'[d] = call[d]
  <2> DEFINE r == [call[c] EXCEPT !.pc = "revoking", !.new = k]
  <2>1. call \in [Callers -> Flight \cup {NoFlight}] /\ call[c] \in Flight
    BY ONLY <1>0, <1>1, c \in Callers DEF TypeOK
  <2>2. /\ r \in Flight /\ r # NoFlight /\ r.pc = "revoking" /\ r.out = None
        /\ r.tok = call[c].tok /\ r.new = k
    BY ONLY <1>3, <1>4, <2>1 DEF Flight, NoFlight
  <2>3. call' = [call EXCEPT ![c] = r]
    BY ONLY <1>2
  <2> HIDE DEF r
  <2> QED
    BY ONLY <2>1, <2>2, <2>3, c \in Callers
<1>6. /\ \A d \in Callers : call[d] # NoFlight =>
            /\ call[d].tok # k /\ call[d].new # k
            /\ call[d].tok \in Tokens /\ call[d].new \in Tokens \cup {None}
      /\ \A n \in Navs : nav[n] # NoNav => nav[n].tok # k /\ nav[n].tok \in Tokens
      /\ jar # k /\ jar \in Tokens \cup {None}
  BY ONLY <1>0, <1>3, Shape, FlightFields, NavFields, NamesAssumption
  DEF Shape, FlightKnown, NavKnown, RowsKnown, TypeOK
<1>7. CreatesToken(c, k)
  BY ONLY <1>1, <1>2, <1>3, <1>4, <1>5, <1>6 DEF CreatesToken
<1> QED
  BY ONLY <1>3, <1>7

\* The shape under AuthService.refresh, each of its statements and its failures.
LEMMA ShapeOfCalls ==
    ASSUME Shape, NEW c \in Callers,
           Read(c) \/ RevokeFamily(c) \/ Create(c) \/ RevokeOld(c) \/ CallFails(c)
    PROVE  Shape'
<1> USE NamesAssumption, FlightFields, NavFields
    DEF Shape, TypeOK, rows, browser, history, Callers, Flight, NoFlight, Nav, NoNav
<1>1. CASE Read(c)
  <2>0. TypeOK
    BY DEF Shape
  <2>1. TypeOK'
    BY ONLY <2>0, <1>1, ReadDecides DEF TypeOK
  <2>2. RowsKnown' /\ AllSpendTheJar' /\ OneTokenAtProxy'
    <3>1. RowsKnown'
      BY ONLY Shape, <2>0, <1>1, ReadDecides DEF Shape, RowsKnown
    <3>2. \A d \in Callers : /\ call'[d] # NoFlight <=> call[d] # NoFlight
                             /\ call'[d].tok = call[d].tok
      BY ONLY <2>0, <1>1, ReadDecides
    <3>3. UNCHANGED <<nav, jar, access>>
      BY ONLY <2>0, <1>1, ReadDecides
    <3>4. AllSpendTheJar'
      BY ONLY Shape, <3>2, <3>3 DEF Shape, AllSpendTheJar
    <3>5. OneTokenAtProxy'
      BY ONLY Shape, <3>2, <3>3 DEF Shape, OneTokenAtProxy, Callers
    <3> QED
      BY ONLY <3>1, <3>4, <3>5
  <2>3. \A d \in Callers : FlightKnown(d)'
    <3> SUFFICES ASSUME NEW d \in Callers PROVE FlightKnown(d)'
      OBVIOUS
    <3> QED
      BY ONLY Shape, <2>0, <1>1, ReadDecides, NamesAssumption DEF Shape, FlightKnown
  <2>4. \A m \in Navs : NavKnown(m)'
    BY ONLY Shape, <2>0, <1>1, ReadDecides, NavFields DEF Shape, NavKnown
  <2> QED
    BY ONLY <2>1, <2>2, <2>3, <2>4 DEF Shape
<1>2. CASE RevokeFamily(c)
  <2>0. TypeOK /\ FlightKnown(c)
    BY DEF Shape
  <2>1. TypeOK'
    <3>1. \A k \in Tokens : row'[k] = "unused" <=> family'[k] = None
      BY ONLY <2>0, <1>2, RevokesFamily, c \in Callers DEF TypeOK
    <3> QED
      BY ONLY <2>0, <1>2, <3>1, RevokesFamily, c \in Callers DEF TypeOK
  <2>2. RowsKnown'
    BY ONLY <2>0, <1>2, Shape, RevokesFamily, c \in Callers, NamesAssumption
    DEF Shape, TypeOK, RowsKnown
  <2>3. \A d \in Callers : /\ call'[d] # NoFlight <=> call[d] # NoFlight
                           /\ call'[d].tok = call[d].tok /\ call'[d].new = call[d].new
    BY ONLY <2>0, <1>2, RevokesFamily, c \in Callers
  <2>4. UNCHANGED <<nav, jar, access>>
    BY ONLY <2>0, <1>2, RevokesFamily, c \in Callers
  <2>5. AllSpendTheJar' /\ OneTokenAtProxy'
    BY ONLY Shape, <2>3, <2>4 DEF Shape, AllSpendTheJar, OneTokenAtProxy, Callers
  <2>6. \A d \in Callers : FlightKnown(d)'
    <3> SUFFICES ASSUME NEW d \in Callers PROVE FlightKnown(d)'
      OBVIOUS
    <3> QED
      BY ONLY <2>0, <1>2, Shape, FlightFields, RevokesFamily, c \in Callers, NamesAssumption
      DEF Shape, FlightKnown
  <2>7. \A m \in Navs : NavKnown(m)'
    BY ONLY <2>0, <1>2, Shape, NavFields, RevokesFamily, c \in Callers DEF Shape, NavKnown
  <2> QED
    BY ONLY <2>1, <2>2, <2>5, <2>6, <2>7 DEF Shape
<1>3. CASE Create(c)
  <2>0. TypeOK
    BY DEF Shape
  <2>1. PICK k \in Tokens : CreatesToken(c, k)
    BY ONLY Shape, <1>3, c \in Callers, Creates
  <2>2. /\ row'[k] = "live" /\ family'[k] = family[call[c].tok]
        /\ \A j \in Tokens \ {k} : row'[j] = row[j] /\ family'[j] = family[j]
    BY ONLY <2>0, <2>1 DEF TypeOK, CreatesToken
  <2>3. call[c].tok \in Tokens /\ row[call[c].tok] # "unused" /\ family[call[c].tok] \in Tokens
    BY ONLY <2>0, <2>1, Shape, c \in Callers DEF Shape, FlightKnown, TypeOK, CreatesToken
  <2>4. TypeOK'
    <3>1. \A j \in Tokens : row'[j] = "unused" <=> family'[j] = None
      BY ONLY <2>0, <2>2, <2>3, NamesAssumption DEF TypeOK
    <3> QED
      BY ONLY <2>0, <2>1, <2>3, <3>1 DEF TypeOK, CreatesToken
  <2>5. RowsKnown'
    BY ONLY <2>0, <2>1, <2>2, <2>3, Shape, NamesAssumption
    DEF Shape, RowsKnown, TypeOK, CreatesToken
  <2>6. \A d \in Callers : /\ call'[d] # NoFlight <=> call[d] # NoFlight
                           /\ call'[d].tok = call[d].tok
    BY ONLY <2>1, c \in Callers DEF CreatesToken
  <2>7. AllSpendTheJar' /\ OneTokenAtProxy'
    <3>1. UNCHANGED <<nav, jar, access>>
      BY ONLY <2>1 DEF CreatesToken
    <3>2. AllSpendTheJar'
      BY ONLY Shape, <2>6, <3>1 DEF Shape, AllSpendTheJar
    <3>3. OneTokenAtProxy'
      BY ONLY Shape, <2>6, <3>1 DEF Shape, OneTokenAtProxy, Callers
    <3> QED
      BY ONLY <3>2, <3>3
  <2>8. \A d \in Callers : FlightKnown(d)'
    <3> SUFFICES ASSUME NEW d \in Callers PROVE FlightKnown(d)'
      OBVIOUS
    <3>1. CASE d = c
      BY ONLY <2>1, <2>2, <2>3, <3>1, Shape, c \in Callers, NamesAssumption
      DEF Shape, FlightKnown, CreatesToken
    <3>2. CASE d # c
      BY ONLY <2>1, <2>2, <3>2, Shape, NamesAssumption DEF Shape, FlightKnown, CreatesToken
    <3> QED
      BY ONLY <3>1, <3>2
  <2>9. \A m \in Navs : NavKnown(m)'
    BY ONLY <2>0, <2>1, <2>2, Shape, NavFields, c \in Callers DEF Shape, NavKnown, CreatesToken
  <2> QED
    BY ONLY <2>4, <2>5, <2>7, <2>8, <2>9 DEF Shape
<1>4. CASE RevokeOld(c)
  <2>1. TypeOK'
    <3>1. call[c] # NoFlight /\ Reply(c, "ok")
      BY <1>4 DEF RevokeOld
    <3>2. call' \in [Callers -> Flight \cup {NoFlight}]
      BY ONLY <3>1, Shape, Replied, c \in Callers DEF Shape
    <3> QED
      <4>1. row' = [row EXCEPT ![call[c].tok] = "revoked"] /\ row[call[c].tok] # "unused"
        BY <1>4, <3>1 DEF RevokeOld, FlightKnown
      <4>2. UNCHANGED <<family, expired, nav, tab, leaving, browser, losses, history>>
        BY <1>4 DEF RevokeOld
      <4> QED
        BY ONLY <4>1, <4>2, <3>2, Shape DEF Shape, TypeOK, browser, history
  <2>2. RowsKnown' /\ AllSpendTheJar'
    BY <1>4 DEF RevokeOld, Reply, RowsKnown, AllSpendTheJar, FlightKnown, NavKnown
  <2>3. OneTokenAtProxy'
    BY <1>4 DEF RevokeOld, Reply, OneTokenAtProxy, AllSpendTheJar
  <2>4. \A d \in Callers : FlightKnown(d)'
    BY <1>4 DEF RevokeOld, Reply, FlightKnown, RowsKnown, NavKnown
  <2>5. \A m \in Navs : NavKnown(m)'
    BY <1>4 DEF RevokeOld, Reply, NavKnown, RowsKnown
  <2> QED
    BY ONLY <2>1, <2>2, <2>3, <2>4, <2>5 DEF Shape
<1>5. CASE CallFails(c)
  <2>1. TypeOK'
    BY <1>5 DEF CallFails
  <2>2. RowsKnown' /\ AllSpendTheJar'
    BY <1>5 DEF CallFails, RowsKnown, AllSpendTheJar, FlightKnown, NavKnown
  <2>3. OneTokenAtProxy'
    BY <1>5 DEF CallFails, OneTokenAtProxy
  <2>4. \A d \in Callers : FlightKnown(d)'
    BY <1>5 DEF CallFails, FlightKnown, RowsKnown, NavKnown
  <2>5. \A m \in Navs : NavKnown(m)'
    BY <1>5 DEF CallFails, NavKnown, RowsKnown
  <2> QED
    BY ONLY <2>1, <2>2, <2>3, <2>4, <2>5 DEF Shape
<1> QED
  BY ONLY <1>1, <1>2, <1>3, <1>4, <1>5,
          Read(c) \/ RevokeFamily(c) \/ Create(c) \/ RevokeOld(c) \/ CallFails(c)

\* The shape under the edge proxy and its page requests.
LEMMA ShapeOfProxy ==
    ASSUME Shape, NEW n \in Navs,
           NavSend(n) \/ NavArrive(n) \/ NavAnswer(n) \/ NavReceive(n) \/ NavAbort(n)
    PROVE  Shape'
<1> USE NamesAssumption, FlightFields, NavFields
    DEF Shape, TypeOK, rows, browser, history, Callers, Flight, NoFlight, Nav, NoNav
<1>1. CASE NavSend(n)
  BY <1>1 DEF NavSend, NoteOverlap, OthersAtWork, RowsKnown, FlightKnown, NavKnown,
         OneTokenAtProxy, AllSpendTheJar
<1>2. CASE NavArrive(n)
  <2>0. /\ UNCHANGED rows
        /\ \/ UNCHANGED <<call, overlapped>>
           \/ /\ Post(nav[n].tok, nav[n].tok)
              /\ row[nav[n].tok] # "unused" /\ nav[n].tok \in Tokens /\ nav[n].tok \in Callers
    <3>1. UNCHANGED rows /\ 
          (UNCHANGED <<call, overlapped>> \/ (Post(nav[n].tok, nav[n].tok) /\ nav[n].tok # None))
      BY <1>2 DEF NavArrive
    <3>2. nav[n].tok # None => row[nav[n].tok] # "unused" /\ nav[n].tok \in Tokens /\ nav[n].tok \in Callers
      BY <1>2 DEF NavArrive, NavKnown, RowsKnown
    <3> QED
      BY ONLY <3>1, <3>2
  <2>a. /\ call' \in [Callers -> Flight \cup {NoFlight}]
        /\ overlapped' \subseteq Tokens
        /\ \A d \in Callers : \/ call'[d] = call[d]
                               \/ /\ d = nav[n].tok /\ call'[d] # NoFlight /\ call'[d].tok = nav[n].tok
                                  /\ call'[d].pc = "sent" /\ call'[d].new = None /\ call'[d].out = None
    <3>1. CASE UNCHANGED <<call, overlapped>>
      BY <3>1
    <3>2. CASE Post(nav[n].tok, nav[n].tok)
      BY ONLY <2>0, <3>2, Shape, Posted DEF Shape, TypeOK, rows
    <3> QED
      BY ONLY <2>0, <3>1, <3>2
  <2>1. TypeOK'
    BY <1>2, <2>a DEF NavArrive
  <2>2. RowsKnown' /\ AllSpendTheJar'
    BY <1>2 DEF NavArrive, HasFlight, Post, NoteOverlap, OthersAtWork, RowsKnown, AllSpendTheJar,
           FlightKnown, NavKnown
  <2>3. OneTokenAtProxy'
    BY <1>2 DEF NavArrive, HasFlight, Post, NoteOverlap, OthersAtWork, OneTokenAtProxy, AllSpendTheJar
  <2>4. \A d \in Callers : FlightKnown(d)'
    <3> SUFFICES ASSUME NEW d \in Callers PROVE FlightKnown(d)'
      OBVIOUS
    <3>1. CASE call'[d] = call[d]
      BY ONLY <2>0, <3>1, Shape, d \in Callers DEF Shape, FlightKnown, rows
    <3>2. CASE call'[d] # call[d]
      BY ONLY <2>0, <2>a, <3>2, Shape, NamesAssumption DEF Shape, FlightKnown, rows
    <3> QED
      BY ONLY <3>1, <3>2
  <2>5. \A m \in Navs : NavKnown(m)'
    BY <1>2 DEF NavArrive, HasFlight, Post, NoteOverlap, OthersAtWork, NavKnown, RowsKnown
  <2> QED
    BY ONLY <2>1, <2>2, <2>3, <2>4, <2>5 DEF Shape
<1>3. CASE NavAnswer(n)
  <2>1. TypeOK'
    <3> DEFINE r == [nav[n] EXCEPT !.pc = "answered", !.new = call[nav[n].tok].new]
    <3>1. nav[n] \in Nav /\ call[nav[n].tok].new \in Tokens \cup {None}
      BY <1>3, FlightFields DEF NavAnswer
    <3>a. r \in Nav
      BY ONLY <3>1 DEF Nav
    <3>b. nav' = [nav EXCEPT ![n] = r]
      BY ONLY <1>3 DEF NavAnswer
    <3> HIDE DEF r
    <3>2. nav' \in [Navs -> Nav \cup {NoNav}]
      BY ONLY <3>a, <3>b, Shape, n \in Navs DEF Shape, TypeOK
    <3> QED
      BY <1>3, <3>2 DEF NavAnswer
  <2>2. RowsKnown' /\ AllSpendTheJar'
    BY <1>3 DEF NavAnswer, RowsKnown, AllSpendTheJar, FlightKnown, NavKnown
  <2>3. OneTokenAtProxy'
    BY <1>3 DEF NavAnswer, OneTokenAtProxy, AllSpendTheJar
  <2>4. \A d \in Callers : FlightKnown(d)'
    BY <1>3 DEF NavAnswer, FlightKnown, RowsKnown, NavKnown
  <2>5. \A m \in Navs : NavKnown(m)'
    BY <1>3 DEF NavAnswer, NavKnown, RowsKnown
  <2> QED
    BY ONLY <2>1, <2>2, <2>3, <2>4, <2>5 DEF Shape
<1>4. CASE NavReceive(n)
  <2>1. TypeOK'
    <3>1. /\ jar' \in Tokens \cup {None} /\ access' \in BOOLEAN
          /\ nav' = [nav EXCEPT ![n] = NoNav]
          /\ UNCHANGED <<rows, call, tab, leaving, losses, history>>
      <4>1. nav[n].new \in Tokens \cup {None}
        BY ONLY Shape, NavFields, n \in Navs DEF Shape
      <4> QED
        BY ONLY <1>4, <4>1, Shape DEF Shape, TypeOK, NavReceive, Adopt, browser
    <3> QED
      BY ONLY <3>1, Shape, n \in Navs DEF Shape, TypeOK, rows, history
  <2>2. RowsKnown' /\ AllSpendTheJar'
    BY <1>4 DEF NavReceive, Adopt, RowsKnown, AllSpendTheJar, FlightKnown, NavKnown
  <2>3. OneTokenAtProxy'
    BY <1>4 DEF NavReceive, Adopt, OneTokenAtProxy, AllSpendTheJar
  <2>4. \A d \in Callers : FlightKnown(d)'
    BY <1>4 DEF NavReceive, Adopt, FlightKnown, RowsKnown, NavKnown
  <2>5. \A m \in Navs : NavKnown(m)'
    BY <1>4 DEF NavReceive, Adopt, NavKnown, RowsKnown
  <2> QED
    BY ONLY <2>1, <2>2, <2>3, <2>4, <2>5 DEF Shape
<1>5. CASE NavAbort(n)
  BY <1>5 DEF NavAbort, RowsKnown, FlightKnown, NavKnown, OneTokenAtProxy,
            AllSpendTheJar
<1> QED
  BY ONLY <1>1, <1>2, <1>3, <1>4, <1>5,
          NavSend(n) \/ NavArrive(n) \/ NavAnswer(n) \/ NavReceive(n) \/ NavAbort(n)

\* The shape under the tabs.
LEMMA ShapeOfTabs ==
    ASSUME Shape, NEW t \in Tabs, TabStale(t) \/ TabRefresh(t) \/ TabReceives(t) \/ TabForgets(t)
    PROVE  Shape'
<1> USE NamesAssumption, FlightFields, NavFields
    DEF Shape, TypeOK, rows, browser, history, Callers, Flight, NoFlight, Nav, NoNav
<1>1. CASE TabStale(t)
  BY <1>1 DEF TabStale, RowsKnown, FlightKnown, NavKnown, OneTokenAtProxy, AllSpendTheJar
<1>2. CASE TabRefresh(t)
  <2>0. /\ UNCHANGED rows
        /\ \/ UNCHANGED <<call, overlapped>>
           \/ /\ Post(t, jar)
              /\ row[jar] # "unused" /\ jar \in Tokens /\ t \in Callers
    <3>1. UNCHANGED rows /\ (UNCHANGED <<call, overlapped>> \/ (Post(t, jar) /\ jar # None))
      BY ONLY <1>2 DEF TabRefresh, rows
    <3>2. jar # None => row[jar] # "unused" /\ jar \in Tokens /\ t \in Callers
      BY <1>2 DEF TabRefresh, NavKnown, RowsKnown
    <3> QED
      BY ONLY <3>1, <3>2
  <2>a. /\ call' \in [Callers -> Flight \cup {NoFlight}]
        /\ overlapped' \subseteq Tokens
        /\ \A d \in Callers : \/ call'[d] = call[d]
                               \/ /\ d = t /\ call'[d] # NoFlight /\ call'[d].tok = jar
                                  /\ call'[d].pc = "sent" /\ call'[d].new = None /\ call'[d].out = None
    <3>1. CASE UNCHANGED <<call, overlapped>>
      BY <3>1
    <3>2. CASE Post(t, jar)
      BY ONLY <2>0, <3>2, Shape, Posted DEF Shape, TypeOK, rows
    <3> QED
      BY ONLY <2>0, <3>1, <3>2
  <2>1. TypeOK'
    <3>1. /\ tab' = [tab EXCEPT ![t] = "idle"]
          /\ UNCHANGED <<rows, nav, leaving, browser, losses, loggedOut>>
      BY ONLY <1>2 DEF TabRefresh
    <3> QED
      BY ONLY <2>a, <3>1, Shape, t \in Tabs DEF Shape, TypeOK, rows, browser
  <2>2. RowsKnown' /\ AllSpendTheJar'
    BY <1>2 DEF TabRefresh, Post, NoteOverlap, OthersAtWork, RowsKnown, AllSpendTheJar,
           FlightKnown, NavKnown
  <2>3. OneTokenAtProxy'
    BY <1>2 DEF TabRefresh, Post, NoteOverlap, OthersAtWork, OneTokenAtProxy, AllSpendTheJar
  <2>4. \A d \in Callers : FlightKnown(d)'
    <3> SUFFICES ASSUME NEW d \in Callers PROVE FlightKnown(d)'
      OBVIOUS
    <3>1. CASE call'[d] = call[d]
      BY ONLY <2>0, <3>1, Shape, d \in Callers DEF Shape, FlightKnown, rows
    <3>2. CASE call'[d] # call[d]
      BY ONLY <2>0, <2>a, <3>2, Shape, NamesAssumption DEF Shape, FlightKnown, rows
    <3> QED
      BY ONLY <3>1, <3>2
  <2>5. \A m \in Navs : NavKnown(m)'
    BY <1>2 DEF TabRefresh, Post, NoteOverlap, OthersAtWork, NavKnown, RowsKnown
  <2> QED
    BY ONLY <2>1, <2>2, <2>3, <2>4, <2>5 DEF Shape
<1>3. CASE TabReceives(t)
  <2>1. TypeOK'
    <3>1. /\ call[t] # NoFlight /\ Advance(t, "held")
          /\ jar' \in Tokens \cup {None} /\ access' \in BOOLEAN
      <4>1. call[t].new \in Tokens \cup {None}
        BY ONLY Shape, FlightFields, t \in Tabs DEF Shape, Callers
      <4>2. jar \in Tokens \cup {None} /\ access \in BOOLEAN
        BY ONLY Shape DEF Shape, TypeOK
      <4>3. call[t].pc = "replied" /\ Adopt(call[t].new) /\ Advance(t, "held")
        BY ONLY <1>3 DEF TabReceives
      <4>4. call[t] # NoFlight
        BY ONLY <4>3 DEF NoFlight
      <4> QED
        BY ONLY <4>1, <4>2, <4>3, <4>4 DEF Adopt, browser
    <3>2. call' \in [Callers -> Flight \cup {NoFlight}]
      BY ONLY <3>1, Shape, Advanced, t \in Tabs DEF Shape, Callers
    <3> QED
      BY <1>3, <3>1, <3>2 DEF TabReceives
  <2>2. RowsKnown' /\ AllSpendTheJar'
    BY <1>3 DEF TabReceives, Adopt, Advance, RowsKnown, AllSpendTheJar, FlightKnown, NavKnown
  <2>3. OneTokenAtProxy'
    BY <1>3 DEF TabReceives, Adopt, Advance, OneTokenAtProxy, AllSpendTheJar
  <2>4. \A d \in Callers : FlightKnown(d)'
    BY <1>3 DEF TabReceives, Adopt, Advance, FlightKnown, RowsKnown, NavKnown
  <2>5. \A m \in Navs : NavKnown(m)'
    BY <1>3 DEF TabReceives, Adopt, Advance, NavKnown, RowsKnown
  <2> QED
    BY ONLY <2>1, <2>2, <2>3, <2>4, <2>5 DEF Shape
<1>4. CASE TabForgets(t)
  BY <1>4 DEF TabForgets, RowsKnown, FlightKnown, NavKnown, OneTokenAtProxy,
            AllSpendTheJar
<1> QED
  BY ONLY <1>1, <1>2, <1>3, <1>4,
          TabStale(t) \/ TabRefresh(t) \/ TabReceives(t) \/ TabForgets(t)

\* The shape under what is done to one token: the proxy's flight of it, its expiry.
LEMMA ShapeOfTokens ==
    ASSUME Shape, NEW k \in Tokens, ProxySettles(k) \/ ProxyForgets(k) \/ TokenExpires(k)
    PROVE  Shape'
<1> USE NamesAssumption, FlightFields, NavFields
    DEF Shape, TypeOK, rows, browser, history, Callers, Flight, NoFlight, Nav, NoNav
<1>1. CASE ProxySettles(k)
  BY <1>1 DEF ProxySettles, Advance, RowsKnown, FlightKnown, NavKnown, OneTokenAtProxy, AllSpendTheJar
<1>2. CASE ProxyForgets(k)
  BY <1>2 DEF ProxyForgets, RowsKnown, FlightKnown, NavKnown, OneTokenAtProxy, AllSpendTheJar
<1>3. CASE TokenExpires(k)
  <2>1. /\ \A c \in Callers : call'[c] = NoFlight
        /\ \A m \in Navs : nav'[m] = NoNav
    BY ONLY <1>3 DEF TokenExpires, Quiet
  <2>2. TypeOK' /\ RowsKnown'
    BY <1>3 DEF TokenExpires, RowsKnown
  <2> QED
    BY ONLY <2>1, <2>2, NamesAssumption
    DEF Shape, FlightKnown, NavKnown, OneTokenAtProxy, AllSpendTheJar, Callers
<1> QED
  BY ONLY <1>1, <1>2, <1>3,
          ProxySettles(k) \/ ProxyForgets(k) \/ TokenExpires(k)

\* The shape under login, logout and time.
LEMMA ShapeOfTime ==
    ASSUME Shape,
           \/ Login \/ LogoutSend \/ Logout \/ LogoutReceive
           \/ AccessExpires \/ PurgeRefreshTokens
    PROVE  Shape'
<1> USE NamesAssumption, FlightFields, NavFields
    DEF Shape, TypeOK, rows, browser, history, Callers, Flight, NoFlight, Nav, NoNav
<1>1. CASE Login
  BY <1>1 DEF Login, Quiet, Unused, RowsKnown, FlightKnown, NavKnown, OneTokenAtProxy, AllSpendTheJar
<1>2. CASE LogoutSend
  BY <1>2 DEF LogoutSend, RowsKnown, FlightKnown, NavKnown, OneTokenAtProxy, AllSpendTheJar
<1>3. CASE Logout
  BY <1>3 DEF Logout, RowsKnown, FlightKnown, NavKnown, OneTokenAtProxy, AllSpendTheJar
<1>4. CASE LogoutReceive
  <2>1. TypeOK'
    BY <1>4 DEF LogoutReceive
  <2>2. RowsKnown' /\ AllSpendTheJar'
    BY <1>4 DEF LogoutReceive, RowsKnown, AllSpendTheJar, FlightKnown, NavKnown
  <2>3. OneTokenAtProxy'
    BY <1>4 DEF LogoutReceive, OneTokenAtProxy, AllSpendTheJar
  <2>4. \A d \in Callers : FlightKnown(d)'
    BY <1>4 DEF LogoutReceive, FlightKnown, RowsKnown, NavKnown
  <2>5. \A m \in Navs : NavKnown(m)'
    BY <1>4 DEF LogoutReceive, NavKnown, RowsKnown
  <2> QED
    BY ONLY <2>1, <2>2, <2>3, <2>4, <2>5 DEF Shape
<1>5. CASE AccessExpires
  <2>1. TypeOK'
    BY <1>5 DEF AccessExpires, Quiet
  <2>2. RowsKnown' /\ AllSpendTheJar'
    BY <1>5 DEF AccessExpires, Quiet, RowsKnown, AllSpendTheJar, FlightKnown, NavKnown
  <2>3. OneTokenAtProxy'
    BY <1>5 DEF AccessExpires, Quiet, OneTokenAtProxy, AllSpendTheJar
  <2>4. \A d \in Callers : FlightKnown(d)'
    BY <1>5 DEF AccessExpires, Quiet, FlightKnown, RowsKnown, NavKnown
  <2>5. \A m \in Navs : NavKnown(m)'
    BY <1>5 DEF AccessExpires, Quiet, NavKnown, RowsKnown
  <2> QED
    BY ONLY <2>1, <2>2, <2>3, <2>4, <2>5 DEF Shape
<1>6. CASE PurgeRefreshTokens
  BY <1>6 DEF PurgeRefreshTokens, Quiet, RowsKnown, FlightKnown, NavKnown, OneTokenAtProxy,
            AllSpendTheJar
<1> QED
  BY ONLY <1>1, <1>2, <1>3, <1>4, <1>5, <1>6,
          Login \/ LogoutSend \/ Logout \/ LogoutReceive \/ AccessExpires \/ PurgeRefreshTokens

-----------------------------------------------------------------------------
(* The family *)

\* A family with no overlap has one flight; where a page request is, it is the
\* flight of its token.
LEMMA OneFlight ==
    ASSUME Shape, TabAlone, NEW c \in Callers, call[c] # NoFlight
    PROVE  /\ \A d \in Callers : call[d] # NoFlight => d = c
           /\ \A n \in Navs : nav[n] # NoNav => c = nav[n].tok /\ c \in Tokens
  BY DEF Shape, TabAlone, OneTokenAtProxy, Callers

\* Losses and overlaps stay.
LEMMA StaysClean ==
    ASSUME NEW f, FamilyInv(f), Clean(f)', losses' = losses, overlapped \subseteq overlapped'
    PROVE  Clean(f) /\ CleanInv(f)
  BY DEF FamilyInv, Clean

\* The lookup of AuthService.refresh finds a spent token only for a reason.
LEMMA FamilyOfRead ==
    ASSUME Shape, NEW f \in Tokens \cup {None}, FamilyInv(f), NEW c \in Callers, Read(c)
    PROVE  FamilyInv(f)'
<1>0. TypeOK
  BY DEF Shape
<1>1. OfFamily(f)'
  BY ONLY <1>0, ReadDecides, c \in Callers, Read(c), FamilyInv(f) DEF FamilyInv, OfFamily
<1>2. ASSUME Clean(f)' PROVE CleanInv(f)'
  <2>1. CleanInv(f)
    BY ONLY <1>0, <1>2, ReadDecides, c \in Callers, Read(c), FamilyInv(f) DEF FamilyInv, Clean
  <2>2. TabAlone' /\ PageWaits'
    BY ONLY <1>0, <2>1, ReadDecides, c \in Callers, Read(c)
    DEF CleanInv, TabAlone, PageWaits, Callers, NoFlight
  <2>3. ReplacementComes'
    BY ONLY <1>0, <2>1, ReadDecides, c \in Callers, Read(c), NamesAssumption
    DEF CleanInv, ReplacementComes, Callers, Shape, FlightKnown
  <2>4. JarOfFlight'
    BY ONLY <1>0, <2>1, ReadDecides, c \in Callers, Read(c), NavFields DEF CleanInv, JarOfFlight
  <2>5. RevokedForAReason'
    <3>1. FlightKnown(c) /\ RowsKnown /\ RevokedForAReason
      BY ONLY <2>1, Shape, c \in Callers DEF Shape, CleanInv
    <3>2. /\ call[c].tok \in Tokens /\ call[c].new = None /\ call[c].out = None
          /\ Good(call[c].tok)
      BY ONLY <1>0, <3>1, ReadDecides, FlightFields, c \in Callers, Read(c)
      DEF FlightKnown, RevokedForAReason
    <3>3. call'[c].pc # "sent" /\ call'[c].new = None
          /\ (call'[c].pc = "reuse" => Ended(call[c].tok))
          /\ (call'[c].out = "rejected" => Ended(call[c].tok))
          /\ call'[c].out # "ok" /\ call[c].out # "ok"
      BY ONLY <1>0, <3>1, <3>2, ReadDecides, NamesAssumption, c \in Callers, Read(c)
      DEF RowsKnown, Good, Ended
    <3> QED
      BY ONLY <1>0, <3>1, <3>3, ReadDecides, NavFields, c \in Callers, Read(c)
      DEF RevokedForAReason, Good, Ended
  <2>6. LiveHandled(f)'
    BY ONLY <1>0, <2>1, ReadDecides, c \in Callers, Read(c) DEF CleanInv, LiveHandled, Current, Handled
  <2> QED
    BY ONLY <2>2, <2>3, <2>4, <2>5, <2>6 DEF CleanInv
<1> QED
  BY ONLY <1>1, <1>2 DEF FamilyInv


\* Reuse detection revokes the family only of a session that had ended or overlapped.
LEMMA FamilyOfRevokeFamily ==
    ASSUME Shape, NEW f \in Tokens \cup {None}, FamilyInv(f), NEW c \in Callers, RevokeFamily(c)
    PROVE  FamilyInv(f)'
<1>0. TypeOK /\ FlightKnown(c)
  BY DEF Shape
<1>1. /\ call[c] # NoFlight /\ call[c].pc = "reuse"
      /\ UNCHANGED <<family, expired, nav, jar, losses, overlapped, loggedOut>>
      /\ \A k \in Tokens : row'[k] = row[k] \/ (row[k] = "live" /\ row'[k] = "revoked")
  BY ONLY <1>0, RevokesFamily, c \in Callers, RevokeFamily(c)
<1>2. /\ call'[c] # NoFlight /\ call'[c].pc = "replied" /\ call'[c].out = "rejected"
      /\ call'[c].tok = call[c].tok /\ call'[c].new = call[c].new
      /\ \A d \in Callers \ {c} : call'[d] = call[d]
  BY ONLY <1>0, RevokesFamily, c \in Callers, RevokeFamily(c)
<1>3. call[c].new = None /\ call[c].out = None /\ call[c].tok \in Tokens
  BY ONLY <1>0, RevokesFamily, c \in Callers, RevokeFamily(c)
<1>4. OfFamily(f)'
  BY ONLY <1>1, <1>2, FamilyInv(f) DEF FamilyInv, OfFamily
<1>5. ASSUME Clean(f)' PROVE CleanInv(f)'
  <2>1. CleanInv(f)
    BY ONLY <1>1, <1>5, FamilyInv(f) DEF FamilyInv, Clean
  <2>2. /\ \A d \in Callers : call[d] # NoFlight => d = c
        /\ \A n \in Navs : nav[n] # NoNav => nav[n].tok = c
    BY ONLY <1>1, <2>1, Shape, OneFlight, c \in Callers DEF CleanInv
  <2>3. TabAlone' /\ PageWaits'
    BY ONLY <1>1, <1>2, <2>1 DEF CleanInv, TabAlone, PageWaits, Callers, NoFlight
  <2>4. ReplacementComes' /\ JarOfFlight'
    BY ONLY <1>0, <1>1, <1>2, <1>3, <2>1, NavFields, c \in Callers
    DEF CleanInv, ReplacementComes, JarOfFlight
  <2>5. RevokedForAReason'
    <3>1. Ended(call[c].tok) /\ jar \in {None, call[c].tok}
      BY ONLY <1>1, <2>1, c \in Callers DEF CleanInv, RevokedForAReason, JarOfFlight
    <3>2. \A d \in Callers \ {c} : call'[d].pc = "none" /\ call'[d].new = None /\ call'[d].out = None
      BY ONLY <1>2, <2>2 DEF NoFlight
    <3> QED
      BY ONLY <1>1, <1>2, <1>3, <2>2, <3>1, <3>2, NamesAssumption, c \in Callers
      DEF RevokedForAReason, Good, Ended
  <2>6. LiveHandled(f)'
    BY ONLY <1>1, <1>2, <2>1, NamesAssumption DEF CleanInv, LiveHandled, Current, Handled
  <2> QED
    BY ONLY <2>3, <2>4, <2>5, <2>6 DEF CleanInv
<1> QED
  BY ONLY <1>4, <1>5 DEF FamilyInv

\* The first statement of a rotation adds the one token that replaces the old.
LEMMA FamilyOfCreate ==
    ASSUME Shape, NEW f \in Tokens \cup {None}, FamilyInv(f), NEW c \in Callers, Create(c)
    PROVE  FamilyInv(f)'
<1>0. TypeOK
  BY DEF Shape
<1>1. PICK k \in Tokens : CreatesToken(c, k)
  BY ONLY Shape, Creates, c \in Callers, Create(c)
<1>2. /\ call[c] # NoFlight /\ call[c].pc = "rotating"
      /\ UNCHANGED <<expired, nav, jar, losses, overlapped, loggedOut>>
  BY ONLY <1>1 DEF CreatesToken
<1>3. /\ k \in Tokens /\ row[k] = "unused" /\ row'[k] = "live"
      /\ family'[k] = family[call[c].tok]
      /\ \A j \in Tokens \ {k} : row'[j] = row[j] /\ family'[j] = family[j]
  BY ONLY <1>0, <1>1 DEF TypeOK, CreatesToken
<1>4. /\ call'[c] # NoFlight /\ call'[c].pc = "revoking" /\ call'[c].out = call[c].out
      /\ call'[c].tok = call[c].tok /\ call'[c].new = k
      /\ \A d \in Callers \ {c} : call'[d] = call[d]
  BY ONLY <1>1 DEF CreatesToken
<1>5. /\ call[c].new = None /\ call[c].out = None
      /\ \A d \in Callers : call[d] # NoFlight =>
            /\ call[d].tok # k /\ call[d].new # k
            /\ call[d].tok \in Tokens /\ call[d].new \in Tokens \cup {None}
      /\ \A n \in Navs : nav[n] # NoNav => nav[n].tok # k /\ nav[n].tok \in Tokens
      /\ jar # k /\ jar \in Tokens \cup {None}
  BY ONLY <1>1 DEF CreatesToken
<1>6. OfFamily(f)'
  BY ONLY <1>2, <1>3, <1>4, <1>5, FamilyInv(f), c \in Callers DEF FamilyInv, OfFamily
<1>7. ASSUME Clean(f)' PROVE CleanInv(f)'
  <2>1. CleanInv(f)
    BY ONLY <1>2, <1>7, FamilyInv(f) DEF FamilyInv, Clean
  <2>2. TabAlone' /\ PageWaits'
    BY ONLY <1>2, <1>4, <2>1 DEF CleanInv, TabAlone, PageWaits, Callers, NoFlight
  <2>3. ReplacementComes' /\ JarOfFlight'
    <3>1. ReplacementComes'
      BY ONLY <1>2, <1>4, <1>5, <2>1, NamesAssumption, c \in Callers DEF CleanInv, ReplacementComes
    <3>2. jar \in {None, call[c].tok}
      BY ONLY <1>2, <2>1, c \in Callers DEF CleanInv, JarOfFlight
    <3>3. JarOfFlight'
      BY ONLY <1>0, <1>2, <1>4, <2>1, <3>2, NavFields, c \in Callers DEF CleanInv, JarOfFlight
    <3> QED
      BY ONLY <3>1, <3>3
  <2>4. RevokedForAReason'
    <3>1. \A d \in Callers \ {c} : /\ call[d].pc = "sent" => call[d].tok \in Tokens \ {k}
                                   /\ call[d].new # None => call[d].new \in Tokens \ {k}
      BY ONLY <1>5 DEF NoFlight
    <3>2. RevokedForAReason
      BY ONLY <2>1 DEF CleanInv
    <3>3. jar # None => Good(jar)' \/ \E d \in Callers : call'[d].out = "ok" /\ call'[d].tok = jar
      BY ONLY <1>2, <1>3, <1>4, <1>5, <3>2, c \in Callers DEF RevokedForAReason, Good, Ended
    <3>4. \A d \in Callers : /\ call'[d].pc = "sent" => Good(call[d].tok)'
                             /\ call'[d].new # None => Good(call[d].new)'
                             /\ call'[d].pc = "reuse" => Ended(call[d].tok)'
                             /\ call'[d].out = "rejected" => Ended(call[d].tok)'
      BY ONLY <1>2, <1>3, <1>4, <1>5, <3>1, <3>2, NamesAssumption, c \in Callers
      DEF RevokedForAReason, Good, Ended
    <3>5. \A n \in Navs : nav[n] # NoNav /\ call'[nav[n].tok] = NoFlight => Good(nav[n].tok)'
      BY ONLY <1>0, <1>2, <1>3, <1>4, <1>5, <3>2, NavFields, c \in Callers
      DEF RevokedForAReason, Good, Ended
    <3> QED
      BY ONLY <1>2, <3>3, <3>4, <3>5 DEF RevokedForAReason
  <2>5. LiveHandled(f)'
    <3>1. Current
      BY ONLY <1>2, c \in Callers DEF Current
    <3> QED
      <4>1. SUFFICES ASSUME NEW j \in Tokens, row'[j] = "live", family'[j] = f PROVE Handled(j)'
        BY ONLY <4>1 DEF LiveHandled
      <4>2. CASE j = k
        BY ONLY <1>4, <4>2, c \in Callers DEF Handled
      <4>3. CASE j # k
        <5>1. Handled(j)
          BY ONLY <1>3, <2>1, <3>1, <4>1, <4>3 DEF CleanInv, LiveHandled
        <5>2. call[c].new = None
          BY ONLY <1>5
        <5> QED
          BY ONLY <1>2, <1>4, <5>1, <5>2, NamesAssumption, j \in Tokens DEF Handled
      <4> QED
        BY ONLY <4>2, <4>3
  <2> QED
    BY ONLY <2>2, <2>3, <2>4, <2>5 DEF CleanInv
<1> QED
  BY ONLY <1>6, <1>7 DEF FamilyInv

\* The second statement of a rotation leaves the new token the one that is live.
LEMMA FamilyOfRevokeOld ==
    ASSUME Shape, NEW f \in Tokens \cup {None}, FamilyInv(f), NEW c \in Callers, RevokeOld(c)
    PROVE  FamilyInv(f)'
<1>0. TypeOK
  BY DEF Shape
<1>1. /\ call[c].pc = "revoking" /\ call[c] # NoFlight
      /\ Reply(c, "ok")
      /\ row' = [row EXCEPT ![call[c].tok] = "revoked"]
      /\ UNCHANGED <<family, expired, nav, jar, losses, overlapped, loggedOut>>
  BY DEF RevokeOld, rows, browser, history, NoFlight
<1>2. /\ call'[c] # NoFlight /\ call'[c].pc = "replied" /\ call'[c].out = "ok"
      /\ call'[c].tok = call[c].tok /\ call'[c].new = call[c].new
      /\ \A d \in Callers \ {c} : call'[d] = call[d]
  BY ONLY <1>0, <1>1, Replied, c \in Callers
<1>3. /\ call[c].tok \in Tokens /\ call[c].new \in Tokens /\ call[c].new # call[c].tok
      /\ call[c].out = None
      /\ row'[call[c].tok] = "revoked"
      /\ \A j \in Tokens \ {call[c].tok} : row'[j] = row[j]
  BY ONLY <1>0, <1>1, Shape, FlightFields, c \in Callers DEF Shape, FlightKnown, TypeOK
<1>4. OfFamily(f)'
  BY ONLY <1>1, <1>2, FamilyInv(f) DEF FamilyInv, OfFamily
<1>5. ASSUME Clean(f)' PROVE CleanInv(f)'
  <2>1. CleanInv(f)
    BY ONLY <1>1, <1>5, FamilyInv(f) DEF FamilyInv, Clean
  <2>2. /\ \A d \in Callers : call[d] # NoFlight => d = c
        /\ \A n \in Navs : nav[n] # NoNav => nav[n].tok = c
    BY ONLY <1>1, <2>1, Shape, OneFlight, c \in Callers DEF CleanInv
  <2>3. TabAlone' /\ PageWaits'
    BY ONLY <1>1, <1>2, <2>1 DEF CleanInv, TabAlone, PageWaits, Callers, NoFlight
  <2>4. ReplacementComes'
    BY ONLY <1>1, <1>2, <2>1, c \in Callers DEF CleanInv, ReplacementComes, PageWaits, Callers
  <2>5. JarOfFlight'
    BY ONLY <1>0, <1>1, <1>2, <2>1, NavFields, c \in Callers DEF CleanInv, JarOfFlight
  <2>6. RevokedForAReason'
    <3>1. \A d \in Callers \ {c} : call'[d].pc = "none" /\ call'[d].new = None /\ call'[d].out = None
      BY ONLY <1>2, <2>2 DEF NoFlight
    <3>2. jar \in Tokens \cup {None} /\ \A d \in Callers : call[d].out = "ok" => d = c
      BY ONLY <1>0, <2>2, NamesAssumption DEF NoFlight, TypeOK
    <3>3. (jar # None => Good(jar)' \/ call[c].tok = jar) /\ Good(call[c].new)'
      BY ONLY <1>1, <1>2, <1>3, <2>1, <3>2, NamesAssumption, c \in Callers
      DEF CleanInv, RevokedForAReason, Good, Ended
    <3> QED
      BY ONLY <1>1, <1>2, <2>2, <3>1, <3>3, NamesAssumption, c \in Callers
      DEF RevokedForAReason, Good, Ended
  <2>7. LiveHandled(f)'
    BY ONLY <1>1, <1>2, <1>3, <2>1, NamesAssumption DEF CleanInv, LiveHandled, Current, Handled
  <2> QED
    BY ONLY <2>3, <2>4, <2>5, <2>6, <2>7 DEF CleanInv
<1> QED
  BY ONLY <1>4, <1>5 DEF FamilyInv

\* A loss ends what is claimed of the family; what is under way stays of it.
LEMMA FamilyOfLoss ==
    ASSUME Shape, NEW f \in Tokens \cup {None}, FamilyInv(f),
           \/ \E c \in Callers : CallFails(c)
           \/ \E n \in Navs : NavAbort(n)
    PROVE  FamilyInv(f)'
<1>0. TypeOK
  BY DEF Shape
<1>1. losses \in Nat
  <2>1. losses \in 0..MaxLosses
    BY ONLY <1>0 DEF TypeOK
  <2> QED
    BY ONLY <2>1, NamesAssumption
<1> DEFINE Kept ==
       /\ losses' = losses + 1 /\ UNCHANGED <<family, jar>>
       /\ \A c \in Callers : call'[c] # NoFlight => call[c] # NoFlight /\ call'[c].tok = call[c].tok
       /\ \A n \in Navs : nav'[n] # NoNav => nav'[n] = nav[n]
<1>2. ASSUME NEW c \in Callers, CallFails(c) PROVE Kept
  <2>1. losses' = losses + 1 /\ UNCHANGED <<family, jar, nav>>
    BY ONLY <1>2 DEF CallFails, rows, browser
  <2>2. call[c] # NoFlight
    BY ONLY <1>2 DEF CallFails, NoFlight
  <2>3. call[c] \in Flight /\ call \in [Callers -> Flight \cup {NoFlight}]
    BY ONLY <1>0, <2>2, c \in Callers DEF TypeOK
  <2>4. PICK out \in {"rejected", "failed"} :
           call' = [call EXCEPT ![c].pc = "held", ![c].new = None, ![c].out = out]
    BY ONLY <1>2 DEF CallFails
  <2>5. call'[c].tok = call[c].tok /\ \A d \in Callers \ {c} : call'[d] = call[d]
    BY ONLY <2>3, <2>4 DEF Flight
  <2> QED
    BY ONLY <2>1, <2>2, <2>5
<1>3. ASSUME NEW n \in Navs, NavAbort(n) PROVE Kept
  <2>1. /\ losses' = losses + 1 /\ UNCHANGED <<family, jar, call>>
        /\ nav' = [nav EXCEPT ![n] = NoNav]
    BY ONLY <1>3 DEF NavAbort, rows, browser
  <2>2. nav \in [Navs -> Nav \cup {NoNav}]
    BY ONLY <1>0 DEF TypeOK
  <2> QED
    BY ONLY <2>1, <2>2
<1>4. Kept
  BY <1>2, <1>3
<1>5. losses' # 0
  BY ONLY <1>1, <1>4
<1> QED
  BY ONLY <1>4, <1>5, FamilyInv(f) DEF FamilyInv, OfFamily, Clean

\* A page request carries the cookie, so it joins what works on that family.
LEMMA FamilyOfNavSend ==
    ASSUME Shape, NEW f \in Tokens \cup {None}, FamilyInv(f), NEW n \in Navs, NavSend(n)
    PROVE  FamilyInv(f)'
<1>0. TypeOK
  BY DEF Shape
<1>1. /\ nav[n] = NoNav /\ jar \in Tokens /\ jar # None
      /\ nav' = [nav EXCEPT ![n] = [pc |-> "sent", tok |-> jar, new |-> None]]
      /\ NoteOverlap(jar, jar)
      /\ UNCHANGED <<row, family, expired, call, jar, losses, loggedOut>>
  BY <1>0 DEF NavSend, TypeOK, rows, browser
<1>2. /\ nav'[n] # NoNav /\ nav'[n].tok = jar /\ nav'[n].pc = "sent"
      /\ nav[n].tok = None /\ nav[n].pc = "idle"
      /\ \A m \in Navs \ {n} : nav'[m] = nav[m]
  BY ONLY <1>0, <1>1, n \in Navs DEF TypeOK, NoNav
<1>3. OfFamily(f)'
  BY ONLY <1>1, <1>2, FamilyInv(f) DEF FamilyInv, OfFamily
<1>4. ASSUME Clean(f)' PROVE CleanInv(f)'
  <2>1. family[jar] = f
    BY ONLY <1>1, FamilyInv(f) DEF FamilyInv, OfFamily
  <2>2. ~OthersAtWork(jar) /\ CleanInv(f)
    BY ONLY <1>1, <1>4, <2>1, FamilyInv(f) DEF NoteOverlap, FamilyInv, Clean
  <2>3. \A t \in Tabs : call[t] = NoFlight
    BY ONLY <1>1, <2>2, NamesAssumption DEF OthersAtWork
  <2>4. TabAlone' /\ PageWaits'
    BY ONLY <1>1, <1>2, <2>2, <2>3 DEF CleanInv, TabAlone, PageWaits
  <2>5. ReplacementComes'
    BY ONLY <1>1, <1>2, <2>2, NamesAssumption DEF CleanInv, ReplacementComes, Callers
  <2>6. JarOfFlight'
    BY ONLY <1>1, <1>2, <2>2 DEF CleanInv, JarOfFlight
  <2>7. RevokedForAReason'
    <3>1. call[jar] = NoFlight => Good(jar)
      <4>1. ASSUME NEW c \in Callers, call[c].out = "ok", call[c].tok = jar PROVE c = jar
        BY ONLY <2>3, <4>1, Shape, NamesAssumption DEF Shape, FlightKnown, Callers, NoFlight
      <4> QED
        BY ONLY <1>1, <2>2, <4>1, NamesAssumption DEF CleanInv, RevokedForAReason, NoFlight
    <3> QED
      BY ONLY <1>1, <1>2, <2>2, <3>1 DEF CleanInv, RevokedForAReason, Good, Ended
  <2>8. LiveHandled(f)'
    BY ONLY <1>1, <1>2, <2>2 DEF CleanInv, LiveHandled, Current, Handled
  <2> QED
    BY ONLY <2>4, <2>5, <2>6, <2>7, <2>8 DEF CleanInv
<1> QED
  BY ONLY <1>3, <1>4 DEF FamilyInv

\* The proxy joins the flight of the request's token or starts the only one.
LEMMA FamilyOfNavArrive ==
    ASSUME Shape, NEW f \in Tokens \cup {None}, FamilyInv(f), NEW n \in Navs, NavArrive(n)
    PROVE  FamilyInv(f)'
<1>0. TypeOK
  BY DEF Shape
<1> DEFINE k == nav[n].tok
<1>1. /\ nav[n].pc = "sent" /\ nav[n] # NoNav /\ k \in Tokens /\ k \in Callers
      /\ nav' = [nav EXCEPT ![n].pc = "waiting"]
      /\ UNCHANGED <<row, family, expired, jar, losses, loggedOut>>
  BY ONLY <1>0, NavArrive(n), NavFields, n \in Navs DEF NavArrive, NoNav, rows, browser
<1>2. \/ UNCHANGED <<call, overlapped>> /\ call[k] # NoFlight
      \/ Post(k, k) /\ call[k] = NoFlight
  BY ONLY <1>0, <1>1, NavArrive(n), FlightFields DEF NavArrive, HasFlight
<1>3. /\ \A m \in Navs : (nav'[m] # NoNav <=> nav[m] # NoNav) /\ nav'[m].tok = nav[m].tok
      /\ \A m \in Navs : nav[m].pc = "waiting" => nav'[m].pc = "waiting"
      /\ nav'[n].pc = "waiting" /\ nav'[n].tok = k
  <2>1. nav[n] \in Nav /\ nav \in [Navs -> Nav \cup {NoNav}]
    BY ONLY <1>0, <1>1, n \in Navs DEF TypeOK
  <2> QED
    BY ONLY <1>1, <2>1, n \in Navs DEF Nav, NoNav
<1>4. /\ \A d \in Callers : \/ call'[d] = call[d]
                            \/ /\ d = k /\ call'[d] # NoFlight /\ call'[d].tok = k
                               /\ call'[d].pc = "sent" /\ call'[d].new = None /\ call'[d].out = None
                               /\ call[d] = NoFlight
      /\ call'[k] # NoFlight
      /\ overlapped \subseteq overlapped'
  <2>1. CASE UNCHANGED <<call, overlapped>> /\ call[k] # NoFlight
    BY ONLY <2>1
  <2>2. CASE Post(k, k) /\ call[k] = NoFlight
    BY ONLY <1>0, <1>1, <2>2, Posted
  <2> QED
    BY ONLY <1>2, <2>1, <2>2
<1>5. OfFamily(f)'
  BY ONLY <1>1, <1>3, <1>4, FamilyInv(f), n \in Navs DEF FamilyInv, OfFamily
<1> HIDE DEF k
<1>6. ASSUME Clean(f)' PROVE CleanInv(f)'
  <2>1. CleanInv(f)
    BY ONLY <1>1, <1>4, <1>6, FamilyInv(f), StaysClean
  <2>2. \A t \in Tabs : call[t] = NoFlight /\ t # k
    BY ONLY <1>1, <2>1, NamesAssumption, n \in Navs DEF CleanInv, TabAlone
  <2>3. TabAlone'
    BY ONLY <1>4, <2>2 DEF TabAlone, Callers
  <2>4. PageWaits'
    BY ONLY <1>3, <1>4, <2>1, n \in Navs DEF CleanInv, PageWaits, Callers
  <2>5. ReplacementComes'
    BY ONLY <1>1, <1>3, <1>4, <2>1, NamesAssumption DEF CleanInv, ReplacementComes
  <2>6. JarOfFlight'
    <3>1. call[k] = NoFlight => jar \in {None, k}
      BY ONLY <1>1, <2>1, n \in Navs DEF CleanInv, JarOfFlight, NoFlight, k
    <3>2. \A m \in Navs : nav[m] # NoNav => nav[m].tok \in Callers
      BY ONLY <1>0, NavFields
    <3> QED
      BY ONLY <1>1, <1>3, <1>4, <2>1, <3>1, <3>2 DEF CleanInv, JarOfFlight
  <2>7. RevokedForAReason'
    <3>1. call[k] = NoFlight => Good(k)
      BY ONLY <1>1, <2>1, n \in Navs DEF CleanInv, RevokedForAReason, k
    <3>2. \A m \in Navs : nav[m] # NoNav => nav[m].tok \in Callers
      BY ONLY <1>0, NavFields
    <3>3. \A d \in Callers : call'[d] # call[d] => call[d].out = None
      BY ONLY <1>4 DEF NoFlight
    <3> QED
      BY ONLY <1>1, <1>3, <1>4, <2>1, <3>1, <3>2, <3>3, NamesAssumption
      DEF CleanInv, RevokedForAReason, Good, Ended
  <2>8. LiveHandled(f)'
    <3>1. Current
      BY ONLY <1>1, n \in Navs DEF Current
    <3> QED
      BY ONLY <1>1, <1>3, <1>4, <2>1, <3>1 DEF CleanInv, LiveHandled, Handled
  <2> QED
    BY ONLY <2>3, <2>4, <2>5, <2>6, <2>7, <2>8 DEF CleanInv
<1> QED
  BY ONLY <1>5, <1>6 DEF FamilyInv

\* The proxy answers a page request with the tokens of the flight it keeps.
LEMMA FamilyOfNavAnswer ==
    ASSUME Shape, NEW f \in Tokens \cup {None}, FamilyInv(f), NEW n \in Navs, NavAnswer(n)
    PROVE  FamilyInv(f)'
<1>0. TypeOK
  BY DEF Shape
<1>1. /\ nav[n].pc = "waiting" /\ nav[n] # NoNav /\ call[nav[n].tok].pc = "held"
      /\ nav' = [nav EXCEPT ![n].pc = "answered", ![n].new = call[nav[n].tok].new]
      /\ UNCHANGED <<row, family, expired, call, jar, losses, overlapped, loggedOut>>
  BY DEF NavAnswer, NoNav, rows, browser, history
<1>2. /\ \A m \in Navs : (nav'[m] # NoNav <=> nav[m] # NoNav) /\ nav'[m].tok = nav[m].tok
      /\ \A m \in Navs \ {n} : nav'[m] = nav[m]
  <2>1. nav[n] \in Nav /\ nav \in [Navs -> Nav \cup {NoNav}]
    BY ONLY <1>0, <1>1, n \in Navs DEF TypeOK
  <2> DEFINE r == [nav[n] EXCEPT !.pc = "answered", !.new = call[nav[n].tok].new]
  <2>2. r.tok = nav[n].tok /\ r # NoNav
    BY ONLY <2>1 DEF Nav, NoNav
  <2>3. nav' = [nav EXCEPT ![n] = r]
    BY ONLY <1>1
  <2> HIDE DEF r
  <2> QED
    BY ONLY <1>1, <2>1, <2>2, <2>3, n \in Navs
<1>3. OfFamily(f)'
  BY ONLY <1>1, <1>2, FamilyInv(f) DEF FamilyInv, OfFamily
<1>4. ASSUME Clean(f)' PROVE CleanInv(f)'
  <2>1. CleanInv(f)
    BY ONLY <1>1, <1>4, FamilyInv(f) DEF FamilyInv, Clean
  <2>2. UNCHANGED <<row, family, expired, call, jar, losses, overlapped, loggedOut>>
    BY ONLY <1>1
  <2>3. TabAlone'
    BY ONLY <1>2, <2>1, <2>2 DEF CleanInv, TabAlone
  <2>4. PageWaits'
    <3>1. ASSUME NEW k \in Tokens, call[k].pc \notin {"none", "held"}
          PROVE  \E m \in Navs : nav'[m].pc = "waiting" /\ nav'[m].tok = k
      <4>1. PICK m \in Navs : nav[m].pc = "waiting" /\ nav[m].tok = k
        BY ONLY <2>1, <3>1 DEF CleanInv, PageWaits
      <4>2. m # n
        BY ONLY <1>1, <3>1, <4>1
      <4> QED
        BY ONLY <1>2, <4>1, <4>2
    <3> QED
      BY ONLY <2>2, <3>1 DEF PageWaits
  <2>5. ReplacementComes'
    BY ONLY <1>2, <2>1, <2>2 DEF CleanInv, ReplacementComes
  <2>6. JarOfFlight'
    BY ONLY <1>2, <2>1, <2>2 DEF CleanInv, JarOfFlight
  <2>7. RevokedForAReason'
    BY ONLY <1>2, <2>1, <2>2 DEF CleanInv, RevokedForAReason, Good, Ended
  <2>8. LiveHandled(f)'
    BY ONLY <1>2, <2>1, <2>2 DEF CleanInv, LiveHandled, Current, Handled
  <2> QED
    BY ONLY <2>3, <2>4, <2>5, <2>6, <2>7, <2>8 DEF CleanInv
<1> QED
  BY ONLY <1>3, <1>4 DEF FamilyInv

\* A page response brings the replacement of the token the request carried.
LEMMA FamilyOfNavReceive ==
    ASSUME Shape, NEW f \in Tokens \cup {None}, FamilyInv(f), NEW n \in Navs, NavReceive(n)
    PROVE  FamilyInv(f)'
<1>0. TypeOK
  BY DEF Shape
<1> DEFINE k == nav[n].tok
<1> DEFINE w == nav[n].new
<1>1. /\ nav[n].pc = "answered" /\ nav[n] # NoNav /\ k \in Tokens /\ k \in Callers
      /\ nav' = [nav EXCEPT ![n] = NoNav]
      /\ jar' = IF w = None THEN jar ELSE w
      /\ UNCHANGED <<row, family, expired, call, losses, overlapped, loggedOut>>
  BY ONLY <1>0, NavReceive(n), NavFields, n \in Navs
  DEF NavReceive, Adopt, NoNav, rows, browser, history
<1>2. /\ nav'[n] = NoNav /\ nav'[n].tok = None
      /\ \A m \in Navs \ {n} : nav'[m] = nav[m]
  BY ONLY <1>0, <1>1, n \in Navs DEF TypeOK, NoNav
<1>3. /\ call[k].pc = "held" /\ call[k] # NoFlight /\ call[k].tok = k /\ call[k].new = w
      /\ call[k].out = "ok" <=> w # None
      /\ w # None => w # k /\ family[w] = family[k]
  BY ONLY <1>1, Shape, n \in Navs DEF Shape, NavKnown, FlightKnown, NoFlight
<1>4. OfFamily(f)'
  BY ONLY <1>1, <1>2, <1>3, FamilyInv(f), n \in Navs DEF FamilyInv, OfFamily
<1> HIDE DEF k, w
<1>5. ASSUME Clean(f)' PROVE CleanInv(f)'
  <2>1. CleanInv(f)
    BY ONLY <1>1, <1>5, FamilyInv(f) DEF FamilyInv, Clean
  <2>2. /\ \A d \in Callers : call[d] # NoFlight => d = k
        /\ \A m \in Navs : nav[m] # NoNav => nav[m].tok = k
    BY ONLY <1>1, <1>3, <2>1, Shape, OneFlight DEF CleanInv
  <2>3. \A t \in Tabs : call[t] = NoFlight
    BY ONLY <1>1, <2>2, NamesAssumption DEF Callers
  <2>4. TabAlone' /\ PageWaits'
    BY ONLY <1>1, <1>2, <2>1, <2>3 DEF CleanInv, TabAlone, PageWaits
  <2>5. ReplacementComes'
    <3>1. \A c \in Callers : call[c].out = "ok" => c = k
      BY ONLY <2>2, NamesAssumption DEF NoFlight
    <3> QED
      BY ONLY <1>1, <1>3, <3>1 DEF ReplacementComes
  <2>6. JarOfFlight'
    BY ONLY <1>1, <1>2, <1>3, <2>1, <2>2 DEF CleanInv, JarOfFlight
  <2>7. RevokedForAReason'
    BY ONLY <1>1, <1>2, <1>3, <2>1 DEF CleanInv, RevokedForAReason, Good, Ended
  <2>8. LiveHandled(f)'
    <3>1. Current /\ jar \in {None, k, w}
      BY ONLY <1>1, <1>3, <2>1 DEF Current, CleanInv, JarOfFlight
    <3>2. nav[n].tok = k
      BY ONLY TRUE DEF k
    <3> QED
      BY ONLY <1>1, <1>2, <1>3, <2>1, <3>1, <3>2, NamesAssumption
      DEF CleanInv, LiveHandled, Handled
  <2> QED
    BY ONLY <2>4, <2>5, <2>6, <2>7, <2>8 DEF CleanInv
<1> QED
  BY ONLY <1>4, <1>5 DEF FamilyInv


\* A flight of the proxy that settled is kept while page requests carry its token.
LEMMA FamilyOfProxySettles ==
    ASSUME Shape, NEW f \in Tokens \cup {None}, FamilyInv(f), NEW k \in Tokens, ProxySettles(k)
    PROVE  FamilyInv(f)'
<1>0. TypeOK /\ k \in Callers
  BY DEF Shape, Callers
<1>1. /\ call[k].pc = "replied" /\ call[k] # NoFlight
      /\ Advance(k, "held")
      /\ UNCHANGED <<row, family, expired, nav, jar, losses, overlapped, loggedOut>>
  BY DEF ProxySettles, NoFlight, rows, browser, history
<1>2. /\ call'[k] # NoFlight /\ call'[k].pc = "held"
      /\ \A d \in Callers : /\ call'[d] # NoFlight <=> call[d] # NoFlight
                            /\ call'[d].tok = call[d].tok /\ call'[d].new = call[d].new
                            /\ call'[d].out = call[d].out
      /\ \A d \in Callers \ {k} : call'[d] = call[d]
  BY ONLY <1>0, <1>1, Advanced
<1>3. OfFamily(f)'
  BY ONLY <1>1, <1>2, FamilyInv(f) DEF FamilyInv, OfFamily
<1>4. ASSUME Clean(f)' PROVE CleanInv(f)'
  <2>1. CleanInv(f)
    BY ONLY <1>1, <1>4, FamilyInv(f) DEF FamilyInv, Clean
  <2>2. TabAlone' /\ PageWaits'
    BY ONLY <1>1, <1>2, <2>1 DEF CleanInv, TabAlone, PageWaits, Callers
  <2>3. ReplacementComes'
    BY ONLY <1>1, <1>2, <2>1, NamesAssumption, k \in Tokens DEF CleanInv, ReplacementComes
  <2>4. JarOfFlight'
    BY ONLY <1>0, <1>1, <1>2, <2>1, NavFields DEF CleanInv, JarOfFlight
  <2>5. RevokedForAReason'
    <3>1. \A d \in Callers : call'[d].pc \in {"sent", "reuse"} => call'[d] = call[d]
      BY ONLY <1>2
    <3>2. \A n \in Navs : nav[n] # NoNav => nav[n].tok \in Callers
      BY ONLY <1>0, NavFields
    <3> QED
      BY ONLY <1>1, <1>2, <2>1, <3>1, <3>2 DEF CleanInv, RevokedForAReason, Good, Ended
  <2>6. LiveHandled(f)'
    BY ONLY <1>1, <1>2, <2>1 DEF CleanInv, LiveHandled, Current, Handled
  <2> QED
    BY ONLY <2>2, <2>3, <2>4, <2>5, <2>6 DEF CleanInv
<1> QED
  BY ONLY <1>3, <1>4 DEF FamilyInv

\* When a refresher forgets its flight, the replacement has reached the cookie.
LEMMA FamilyOfForgetting ==
    ASSUME Shape, NEW f \in Tokens \cup {None}, FamilyInv(f),
           \/ \E k \in Tokens : ProxyForgets(k)
           \/ \E t \in Tabs : TabForgets(t)
    PROVE  FamilyInv(f)'
<1>0. TypeOK
  BY DEF Shape
<1>1. PICK c \in Callers : /\ call[c].pc = "held"
                           /\ c \in Tokens => \A n \in Navs : nav[n].tok # c
                           /\ call' = [call EXCEPT ![c] = NoFlight]
                           /\ UNCHANGED <<row, family, expired, nav, jar, losses, overlapped, loggedOut>>
  BY NamesAssumption DEF ProxyForgets, TabForgets, Callers, rows, browser, history
<1>2. call'[c] = NoFlight /\ \A d \in Callers \ {c} : call'[d] = call[d]
  BY ONLY <1>0, <1>1 DEF TypeOK
<1>3. OfFamily(f)'
  BY ONLY <1>1, <1>2, FamilyInv(f) DEF FamilyInv, OfFamily
<1>4. ASSUME Clean(f)' PROVE CleanInv(f)'
  <2>1. CleanInv(f) /\ call[c] # NoFlight
    BY ONLY <1>1, <1>4, FamilyInv(f) DEF FamilyInv, Clean, NoFlight
  <2>2. /\ \A d \in Callers : call[d] # NoFlight => d = c
        /\ \A n \in Navs : nav[n] = NoNav
    BY ONLY <1>1, <2>1, Shape, OneFlight DEF CleanInv
  <2>3. \A d \in Callers : call'[d] = NoFlight
    BY ONLY <1>2, <2>2
  <2>4. TabAlone' /\ PageWaits' /\ ReplacementComes' /\ JarOfFlight'
    BY ONLY <1>1, <2>2, <2>3, NamesAssumption
    DEF TabAlone, PageWaits, ReplacementComes, JarOfFlight, NoFlight, Callers
  <2>5. call[c].out = "ok" => call[c].tok # jar
    BY ONLY <1>1, <2>1 DEF CleanInv, ReplacementComes, Callers
  <2>6. RevokedForAReason'
    <3>1. \A d \in Callers : call[d].out = "ok" => d = c
      BY ONLY <2>2, NamesAssumption DEF NoFlight
    <3> QED
      BY ONLY <1>1, <2>1, <2>2, <2>3, <2>5, <3>1, NamesAssumption
      DEF CleanInv, RevokedForAReason, Good, Ended, NoFlight
  <2>7. LiveHandled(f)'
    <3>1. ASSUME jar # None, NEW j \in Tokens, row[j] = "live", family[j] = f PROVE j = jar
      <4>1. Handled(j) /\ jar \in {None, call[c].tok, call[c].new}
        BY ONLY <2>1, <3>1 DEF CleanInv, LiveHandled, Current, JarOfFlight
      <4>2. j \in {jar, call[c].tok, call[c].new} /\ jar \in {call[c].tok, call[c].new}
        BY ONLY <2>2, <3>1, <4>1 DEF Handled
      <4>3. /\ call[c].out = "ok" <=> call[c].new # None
            /\ call[c].out = "ok" => row[call[c].tok] = "revoked"
        BY ONLY <1>1, <2>1, Shape DEF Shape, FlightKnown
      <4> QED
        BY ONLY <2>5, <3>1, <4>2, <4>3, NamesAssumption
    <3>2. Current' => jar # None
      BY ONLY <1>1, <2>2, <2>3 DEF Current
    <3>3. UNCHANGED <<row, family, jar>>
      BY ONLY <1>1
    <3> QED
      BY ONLY <3>1, <3>2, <3>3 DEF LiveHandled, Handled
  <2> QED
    BY ONLY <2>4, <2>6, <2>7 DEF CleanInv
<1> QED
  BY ONLY <1>3, <1>4 DEF FamilyInv

\* A tab that refreshes while nothing else does is alone with the family.
LEMMA FamilyOfTabRefresh ==
    ASSUME Shape, NEW f \in Tokens \cup {None}, FamilyInv(f), NEW t \in Tabs, TabRefresh(t)
    PROVE  FamilyInv(f)'
<1>0. TypeOK /\ t \in Callers
  BY DEF Shape, Callers
<1>1. UNCHANGED <<row, family, expired, nav, jar, losses, loggedOut>>
  BY DEF TabRefresh, rows, browser
<1>2. CASE UNCHANGED <<call, overlapped>>
  BY ONLY <1>1, <1>2, FamilyInv(f)
  DEF FamilyInv, OfFamily, Clean, CleanInv, TabAlone, PageWaits, ReplacementComes, JarOfFlight,
      RevokedForAReason, Good, Ended, LiveHandled, Current, Handled
<1>3. CASE jar # None /\ call[t] = NoFlight /\ Post(t, jar)
  <2>1. /\ jar \in Tokens /\ call'[t] # NoFlight
        /\ call'[t].pc = "sent" /\ call'[t].tok = jar /\ call'[t].new = None /\ call'[t].out = None
        /\ \A d \in Callers \ {t} : call'[d] = call[d]
        /\ overlapped' = IF OthersAtWork(t) THEN overlapped \cup {family[jar]} ELSE overlapped
    <3>1. jar \in Tokens
      BY ONLY <1>0, <1>3 DEF TypeOK
    <3> QED
      BY ONLY <1>0, <1>3, <3>1, Posted
  <2>2. OfFamily(f)' /\ family[jar] = f
    BY ONLY <1>1, <1>3, <2>1, FamilyInv(f) DEF FamilyInv, OfFamily
  <2>3. ASSUME Clean(f)' PROVE CleanInv(f)'
    <3>1. ~OthersAtWork(t) /\ CleanInv(f)
      BY ONLY <1>1, <2>1, <2>2, <2>3, FamilyInv(f) DEF FamilyInv, Clean
    <3>2. /\ \A d \in Callers : call[d] = NoFlight
          /\ \A n \in Navs : nav[n] = NoNav
      BY ONLY <1>3, <3>1, t \in Tabs DEF OthersAtWork
    <3>3. \A d \in Callers \ {t} : call'[d] = NoFlight
      BY ONLY <2>1, <3>2
    <3>4. TabAlone' /\ PageWaits' /\ ReplacementComes' /\ JarOfFlight'
      BY ONLY <1>1, <2>1, <3>2, <3>3, NamesAssumption, t \in Tabs
      DEF TabAlone, PageWaits, ReplacementComes, JarOfFlight, NoFlight, Callers
    <3>5. RevokedForAReason'
      <4>1. Good(jar)
        BY ONLY <2>1, <3>1, <3>2, NamesAssumption DEF CleanInv, RevokedForAReason, NoFlight
      <4> QED
        BY ONLY <1>1, <2>1, <3>2, <3>3, <4>1, NamesAssumption
        DEF RevokedForAReason, Good, Ended, NoFlight
    <3>6. LiveHandled(f)'
      <4>1. Current /\ \A j \in Tokens : Handled(j) => j = jar
        BY ONLY <1>3, <3>2 DEF Current, Handled
      <4> QED
        BY ONLY <1>1, <3>1, <4>1 DEF CleanInv, LiveHandled, Handled
    <3> QED
      BY ONLY <3>4, <3>5, <3>6 DEF CleanInv
  <2> QED
    BY ONLY <2>2, <2>3 DEF FamilyInv
<1>4. UNCHANGED <<call, overlapped>> \/ (jar # None /\ call[t] = NoFlight /\ Post(t, jar))
  BY ONLY <1>0, TabRefresh(t), FlightFields DEF TabRefresh
<1> QED
  BY ONLY <1>2, <1>3, <1>4

\* A tab's response replaces the token it spent in the cookie.
LEMMA FamilyOfTabReceives ==
    ASSUME Shape, NEW f \in Tokens \cup {None}, FamilyInv(f), NEW t \in Tabs, TabReceives(t)
    PROVE  FamilyInv(f)'
<1>0. TypeOK /\ t \in Callers
  BY DEF Shape, Callers
<1> DEFINE w == call[t].new
<1>1. /\ call[t].pc = "replied" /\ call[t] # NoFlight
      /\ Advance(t, "held")
      /\ jar' = IF w = None THEN jar ELSE w
      /\ UNCHANGED <<row, family, expired, nav, losses, overlapped, loggedOut>>
  BY DEF TabReceives, Adopt, NoFlight, rows, browser, history
<1>2. /\ call'[t] # NoFlight /\ call'[t].pc = "held" /\ call'[t].out = call[t].out
      /\ call'[t].tok = call[t].tok /\ call'[t].new = w
      /\ \A d \in Callers \ {t} : call'[d] = call[d]
  BY ONLY <1>0, <1>1, Advanced
<1>3. /\ call[t].out = "ok" <=> w # None
      /\ w # None => w # call[t].tok /\ family[w] = family[call[t].tok]
  BY ONLY <1>0, <1>1, Shape DEF Shape, FlightKnown
<1>4. OfFamily(f)'
  BY ONLY <1>0, <1>1, <1>2, <1>3, FamilyInv(f) DEF FamilyInv, OfFamily
<1> HIDE DEF w
<1>5. ASSUME Clean(f)' PROVE CleanInv(f)'
  <2>1. CleanInv(f)
    BY ONLY <1>1, <1>5, FamilyInv(f) DEF FamilyInv, Clean
  <2>2. /\ \A d \in Callers \ {t} : call[d] = NoFlight /\ call'[d] = NoFlight
        /\ \A n \in Navs : nav[n] = NoNav
    BY ONLY <1>1, <1>2, <2>1, t \in Tabs DEF CleanInv, TabAlone
  <2>3. jar \in {None, call[t].tok}
    BY ONLY <1>0, <1>1, <2>1 DEF CleanInv, JarOfFlight
  <2>4. TabAlone' /\ PageWaits' /\ ReplacementComes' /\ JarOfFlight'
    BY ONLY <1>0, <1>1, <1>2, <1>3, <2>2, <2>3, NamesAssumption, t \in Tabs
    DEF TabAlone, PageWaits, ReplacementComes, JarOfFlight, NoFlight, Callers
  <2>5. RevokedForAReason'
    <3>1. w # None => Good(w)
      BY ONLY <1>0, <2>1 DEF CleanInv, RevokedForAReason, w
    <3>2. call[t].out = "rejected" => Ended(call[t].tok)
      BY ONLY <1>0, <2>1 DEF CleanInv, RevokedForAReason
    <3>3. jar # None => Good(jar) \/ (call[t].out = "ok" /\ call[t].tok = jar)
      BY ONLY <2>1, <2>2, NamesAssumption DEF CleanInv, RevokedForAReason, NoFlight
    <3> QED
      BY ONLY <1>0, <1>1, <1>2, <2>2, <3>1, <3>2, <3>3, NamesAssumption
      DEF RevokedForAReason, Good, Ended, NoFlight
  <2>6. LiveHandled(f)'
    <3>1. Current /\ call[t].new = w
      BY ONLY <1>0, <1>1 DEF Current, w
    <3>2. \A j \in Tokens : Handled(j) => j \in {call[t].tok, w}
      BY ONLY <2>2, <2>3, <3>1, NamesAssumption DEF Handled, NoFlight
    <3> QED
      BY ONLY <1>0, <1>1, <1>2, <2>1, <3>1, <3>2 DEF CleanInv, LiveHandled, Handled
  <2> QED
    BY ONLY <2>4, <2>5, <2>6 DEF CleanInv
<1> QED
  BY ONLY <1>4, <1>5 DEF FamilyInv


\* What a quiet moment leaves of the invariant: nothing is under way.
LEMMA QuietlyClean ==
    ASSUME Shape, Quiet, UNCHANGED <<call, nav>>
    PROVE  /\ \A c \in Callers : call[c] = NoFlight /\ call'[c] = NoFlight
           /\ \A n \in Navs : nav[n] = NoNav /\ nav'[n] = NoNav
           /\ TabAlone' /\ PageWaits' /\ ReplacementComes' /\ JarOfFlight'
  BY NamesAssumption
  DEF Quiet, TabAlone, PageWaits, ReplacementComes, JarOfFlight, NoFlight, NoNav, Callers

\* A login: the new token is the only one of its family.
LEMMA FamilyOfLogin ==
    ASSUME Shape, Login
    PROVE  \E f \in Tokens : FamilyInv(f)'
<1>0. TypeOK
  BY DEF Shape
<1>1. PICK k \in Unused : /\ row' = [row EXCEPT ![k] = "live"]
                          /\ family' = [family EXCEPT ![k] = k]
                          /\ jar' = k
  BY DEF Login
<1>2. Quiet /\ UNCHANGED <<expired, call, nav, losses, overlapped, loggedOut>>
  BY DEF Login, history
<1>3. /\ k \in Tokens /\ row[k] = "unused" /\ row'[k] = "live" /\ family'[k] = k
      /\ \A j \in Tokens \ {k} : family'[j] = family[j]
  BY ONLY <1>0, <1>1 DEF TypeOK, Unused
<1>4. \A c \in Callers : call'[c] = NoFlight
  BY ONLY <1>2, Shape, QuietlyClean
<1>5. \A n \in Navs : nav'[n] = NoNav
  BY ONLY <1>2, Shape, QuietlyClean
<1>6. OfFamily(k)'
  BY ONLY <1>1, <1>3, <1>4, <1>5 DEF OfFamily
<1>7. CleanInv(k)'
  <2>1. TabAlone' /\ PageWaits' /\ ReplacementComes' /\ JarOfFlight'
    BY ONLY <1>2, Shape, QuietlyClean
  <2>2. RevokedForAReason'
    BY ONLY <1>1, <1>3, <1>4, <1>5, NamesAssumption DEF RevokedForAReason, Good, NoFlight
  <2>3. \A j \in Tokens : family'[j] = k => j = k
    BY ONLY <1>3, Shape, NamesAssumption DEF Shape, RowsKnown
  <2>4. LiveHandled(k)'
    BY ONLY <1>1, <2>3 DEF LiveHandled, Handled
  <2> QED
    BY ONLY <2>1, <2>2, <2>4 DEF CleanInv
<1> QED
  BY ONLY <1>3, <1>6, <1>7 DEF FamilyInv

\* Expiry and purge: nothing is under way, the cookie stays or goes.
LEMMA FamilyOfExpiry ==
    ASSUME Shape, NEW f \in Tokens \cup {None}, FamilyInv(f),
           \/ AccessExpires
           \/ \E k \in Tokens : TokenExpires(k)
           \/ PurgeRefreshTokens
    PROVE  FamilyInv(f)'
<1>0. TypeOK
  BY DEF Shape
<1>1. /\ Quiet /\ jar' \in {jar, None}
      /\ expired \subseteq expired'
      /\ \A k \in Tokens : row'[k] \in {row[k], "purged"}
      /\ UNCHANGED <<family, call, nav, losses, overlapped, loggedOut>>
  BY <1>0 DEF AccessExpires, TokenExpires, PurgeRefreshTokens, rows, browser, history, TypeOK
<1>2. /\ \A c \in Callers : call[c] = NoFlight /\ call'[c] = NoFlight
      /\ \A n \in Navs : nav[n] = NoNav /\ nav'[n] = NoNav
  BY ONLY <1>1, Shape, QuietlyClean
<1>3. OfFamily(f)'
  BY ONLY <1>1, <1>2, FamilyInv(f) DEF FamilyInv, OfFamily
<1>4. ASSUME Clean(f)' PROVE CleanInv(f)'
  <2>1. CleanInv(f)
    BY ONLY <1>1, <1>4, FamilyInv(f) DEF FamilyInv, Clean
  <2>2. TabAlone' /\ PageWaits' /\ ReplacementComes' /\ JarOfFlight'
    BY ONLY <1>1, Shape, QuietlyClean
  <2>3. RevokedForAReason'
    <3>1. jar # None => jar \in Tokens /\ Good(jar)
      BY ONLY <1>0, <1>2, <2>1, NamesAssumption DEF CleanInv, RevokedForAReason, NoFlight, TypeOK
    <3> QED
      BY ONLY <1>1, <1>2, <3>1, NamesAssumption DEF RevokedForAReason, Good, Ended, NoFlight
  <2>4. LiveHandled(f)'
    <3>1. ASSUME Current' PROVE Current /\ jar' = jar
      BY ONLY <1>1, <1>2, <3>1 DEF Current
    <3>2. \A k \in Tokens : Handled(k) => k = jar
      BY ONLY <1>2 DEF Handled
    <3>3. \A k \in Tokens : row'[k] = "live" => row[k] = "live"
      BY ONLY <1>1
    <3> QED
      BY ONLY <1>1, <2>1, <3>1, <3>2, <3>3 DEF CleanInv, LiveHandled, Handled
  <2> QED
    BY ONLY <2>2, <2>3, <2>4 DEF CleanInv
<1> QED
  BY ONLY <1>3, <1>4 DEF FamilyInv

\* A logout ends the session: what is revoked then is revoked for a reason.
LEMMA FamilyOfLogout ==
    ASSUME Shape, NEW f \in Tokens \cup {None}, FamilyInv(f), LogoutSend \/ Logout
    PROVE  FamilyInv(f)'
<1>0. TypeOK
  BY DEF Shape
<1>1. /\ UNCHANGED <<family, expired, call, nav, jar, losses, overlapped>>
      /\ loggedOut \subseteq loggedOut'
      /\ \A k \in Tokens : row'[k] = row[k] \/ (row'[k] = "revoked" /\ k \in loggedOut')
  BY <1>0 DEF LogoutSend, Logout, rows, browser, history, TypeOK
<1>2. OfFamily(f)'
  BY ONLY <1>1, FamilyInv(f) DEF FamilyInv, OfFamily
<1>3. ASSUME Clean(f)' PROVE CleanInv(f)'
  <2>1. CleanInv(f)
    BY ONLY <1>1, <1>3, FamilyInv(f) DEF FamilyInv, Clean
  <2>2. TabAlone' /\ PageWaits' /\ ReplacementComes' /\ JarOfFlight'
    BY ONLY <1>1, <2>1 DEF CleanInv, TabAlone, PageWaits, ReplacementComes, JarOfFlight
  <2>3. RevokedForAReason'
    <3>1. \A k \in Tokens : Good(k) => Good(k)'
      BY ONLY <1>1 DEF Good, Ended
    <3>2. \A k \in Tokens : Ended(k) => Ended(k)'
      BY ONLY <1>1 DEF Ended
    <3>3. /\ jar # None => jar \in Tokens
          /\ \A c \in Callers : /\ call[c].new # None => call[c].new \in Tokens
                                /\ call[c].pc \in {"sent", "reuse"} => call[c].tok \in Tokens
                                /\ call[c].out = "rejected" => call[c].tok \in Tokens
          /\ \A n \in Navs : nav[n] # NoNav => nav[n].tok \in Tokens
      BY ONLY <1>0, FlightFields, NavFields, NamesAssumption DEF TypeOK, NoFlight
    <3> QED
      BY ONLY <1>1, <2>1, <3>1, <3>2, <3>3 DEF CleanInv, RevokedForAReason
  <2>4. LiveHandled(f)'
    BY ONLY <1>1, <2>1 DEF CleanInv, LiveHandled, Current, Handled
  <2> QED
    BY ONLY <2>2, <2>3, <2>4 DEF CleanInv
<1> QED
  BY ONLY <1>2, <1>3 DEF FamilyInv

\* The cookie goes; what a flight holds may still come back.
LEMMA FamilyOfLogoutReceive ==
    ASSUME Shape, NEW f \in Tokens \cup {None}, FamilyInv(f), LogoutReceive
    PROVE  FamilyInv(f)'
<1>0. TypeOK
  BY DEF Shape
<1>1. jar' = None /\ UNCHANGED <<row, family, expired, call, nav, losses, overlapped, loggedOut>>
  BY DEF LogoutReceive, rows, history
<1>2. OfFamily(f)'
  BY ONLY <1>1, FamilyInv(f) DEF FamilyInv, OfFamily
<1>3. ASSUME Clean(f)' PROVE CleanInv(f)'
  <2>1. CleanInv(f)
    BY ONLY <1>1, <1>3, FamilyInv(f) DEF FamilyInv, Clean
  <2>2. TabAlone' /\ PageWaits' /\ JarOfFlight'
    BY ONLY <1>1, <2>1 DEF CleanInv, TabAlone, PageWaits, JarOfFlight
  <2>3. ReplacementComes'
    <3>1. \A c \in Callers : call[c].out = "ok" => call[c].tok # None
      BY ONLY <1>0, FlightFields, NamesAssumption
    <3> QED
      BY ONLY <1>1, <3>1 DEF ReplacementComes
  <2>4. RevokedForAReason'
    BY ONLY <1>1, <2>1 DEF CleanInv, RevokedForAReason, Good, Ended
  <2>5. LiveHandled(f)'
    <3>1. ASSUME Current', NEW k \in Tokens, row[k] = "live", family[k] = f PROVE Handled(k)'
      <4>1. Handled(k)
        BY ONLY <1>1, <2>1, <3>1 DEF CleanInv, LiveHandled, Current
      <4>2. CASE \E c \in Callers : call[c] # NoFlight
        BY ONLY <1>1, <2>1, <4>1, <4>2, NamesAssumption, k \in Tokens DEF CleanInv, JarOfFlight, Handled
      <4>3. CASE \A c \in Callers : call[c] = NoFlight
        <5>1. PICK n \in Navs : nav[n] # NoNav
          BY ONLY <1>1, <3>1, <4>3 DEF Current
        <5>2. call[nav[n].tok].pc # "held"
          BY ONLY <1>0, <4>3, <5>1, NavFields DEF NoFlight
        <5>3. jar \in {None, nav[n].tok}
          BY ONLY <2>1, <5>1, <5>2 DEF CleanInv, JarOfFlight
        <5> QED
          BY ONLY <1>1, <4>1, <5>1, <5>3, NamesAssumption, k \in Tokens DEF Handled
      <4> QED
        BY ONLY <4>2, <4>3
    <3> QED
      BY ONLY <1>1, <3>1 DEF LiveHandled
  <2> QED
    BY ONLY <2>2, <2>3, <2>4, <2>5 DEF CleanInv
<1> QED
  BY ONLY <1>2, <1>3 DEF FamilyInv
-----------------------------------------------------------------------------
(* The theorems *)

\* Nothing is under way before the first login, and no family is.
LEMMA InitIInv == Init => IInv
<1> SUFFICES ASSUME Init PROVE IInv
  OBVIOUS
<1>1. TypeOK
  <2>1. call \in [Callers -> Flight \cup {NoFlight}] /\ nav \in [Navs -> Nav \cup {NoNav}]
    BY DEF Init
  <2>2. /\ row \in [Tokens -> {"unused", "live", "revoked", "purged"}]
        /\ family \in [Tokens -> Tokens \cup {None}]
        /\ \A k \in Tokens : row[k] = "unused" <=> family[k] = None
        /\ tab \in [Tabs -> {"idle", "stale"}]
    BY DEF Init
  <2>3. losses \in 0..MaxLosses
    BY NamesAssumption DEF Init
  <2> QED
    BY <2>1, <2>2, <2>3 DEF Init, TypeOK
<1>2. /\ \A c \in Callers : call[c] = NoFlight
      /\ \A n \in Navs : nav[n] = NoNav
      /\ \A k \in Tokens : row[k] = "unused" /\ family[k] = None
      /\ jar = None /\ expired = {}
  BY DEF Init
<1>3. Shape
  BY ONLY <1>1, <1>2, NamesAssumption
  DEF Shape, RowsKnown, FlightKnown, NavKnown, OneTokenAtProxy, AllSpendTheJar, Callers
<1>4. OfFamily(None)
  BY ONLY <1>2 DEF OfFamily
<1>5. CleanInv(None)
  <2>1. TabAlone /\ PageWaits /\ ReplacementComes /\ JarOfFlight
    BY ONLY <1>2, NamesAssumption
    DEF TabAlone, PageWaits, ReplacementComes, JarOfFlight, NoFlight, Callers
  <2>2. RevokedForAReason /\ LiveHandled(None)
    BY ONLY <1>2, NamesAssumption DEF RevokedForAReason, LiveHandled, NoFlight
  <2> QED
    BY ONLY <2>1, <2>2 DEF CleanInv
<1> QED
  BY ONLY <1>3, <1>4, <1>5 DEF IInv, FamilyInv

\* Every step of the browser, the proxy, the tabs and AuthService keeps the invariant.
LEMMA NextIInv == IInv /\ [Next]_vars => IInv'
<1> SUFFICES ASSUME IInv, [Next]_vars PROVE IInv'
  OBVIOUS
<1>1. Shape
  BY DEF IInv
<1>2. PICK f \in Tokens \cup {None} : FamilyInv(f)
  BY DEF IInv
<1>3. ASSUME NEW c \in Callers, Read(c) \/ RevokeFamily(c) \/ Create(c) \/ RevokeOld(c) \/ CallFails(c)
      PROVE  Shape' /\ FamilyInv(f)'
  BY ONLY <1>1, <1>2, <1>3, ShapeOfCalls, FamilyOfRead, FamilyOfRevokeFamily, FamilyOfCreate,
          FamilyOfRevokeOld, FamilyOfLoss
<1>4. ASSUME NEW n \in Navs,
             NavSend(n) \/ NavArrive(n) \/ NavAnswer(n) \/ NavReceive(n) \/ NavAbort(n)
      PROVE  Shape' /\ FamilyInv(f)'
  BY ONLY <1>1, <1>2, <1>4, ShapeOfProxy, FamilyOfNavSend, FamilyOfNavArrive, FamilyOfNavAnswer,
          FamilyOfNavReceive, FamilyOfLoss
<1>5. ASSUME NEW k \in Tokens, ProxySettles(k) \/ ProxyForgets(k) \/ TokenExpires(k)
      PROVE  Shape' /\ FamilyInv(f)'
  BY ONLY <1>1, <1>2, <1>5, ShapeOfTokens, FamilyOfProxySettles, FamilyOfForgetting, FamilyOfExpiry
<1>6. ASSUME NEW t \in Tabs, TabStale(t) \/ TabRefresh(t) \/ TabReceives(t) \/ TabForgets(t)
      PROVE  Shape' /\ FamilyInv(f)'
  <2>1. ASSUME TabStale(t) PROVE FamilyInv(f)'
    BY ONLY <1>2, <2>1
    DEF TabStale, rows, browser, history, FamilyInv, OfFamily, Clean, CleanInv, TabAlone, PageWaits,
        ReplacementComes, JarOfFlight, RevokedForAReason, Good, Ended, LiveHandled, Current, Handled
  <2> QED
    BY ONLY <1>1, <1>2, <1>6, <2>1, ShapeOfTabs, FamilyOfTabRefresh, FamilyOfTabReceives,
            FamilyOfForgetting
<1>7. ASSUME \/ Login \/ LogoutSend \/ Logout \/ LogoutReceive
             \/ AccessExpires \/ PurgeRefreshTokens
      PROVE  IInv'
  <2>1. Shape'
    BY ONLY <1>1, <1>7, ShapeOfTime
  <2>2. CASE Login
    BY ONLY <1>1, <2>1, <2>2, FamilyOfLogin DEF IInv
  <2>3. CASE LogoutSend \/ Logout \/ LogoutReceive \/ AccessExpires \/ PurgeRefreshTokens
    <3>1. FamilyInv(f)'
      BY ONLY <1>1, <1>2, <2>3, FamilyOfLogout, FamilyOfLogoutReceive, FamilyOfExpiry
    <3> QED
      BY ONLY <2>1, <3>1, f \in Tokens \cup {None} DEF IInv
  <2> QED
    BY ONLY <1>7, <2>2, <2>3
<1>8. CASE UNCHANGED vars
  BY ONLY <1>8, IInv
  DEF vars, rows, browser, history, IInv, Shape, TypeOK, RowsKnown, FlightKnown, NavKnown,
      OneTokenAtProxy, AllSpendTheJar, FamilyInv, OfFamily, Clean, CleanInv, TabAlone, PageWaits,
      ReplacementComes, JarOfFlight, RevokedForAReason, Good, Ended, LiveHandled, Current, Handled
<1>9. Shape' /\ FamilyInv(f)' => IInv'
  BY ONLY f \in Tokens \cup {None} DEF IInv
<1> QED
  BY ONLY <1>3, <1>4, <1>5, <1>6, <1>7, <1>8, <1>9, [Next]_vars DEF Next

\* The shape of what is under way, and what holds of a family with no overlap,
\* in every state a browser, the proxy and the API can reach.
THEOREM Invariance == Spec => []IInv
  BY InitIInv, NextIInv, PTL DEF Spec

\* Every variable of the session keeps its type: no row without a family, no
\* flight without a token.
THEOREM TypeCorrect == Spec => []TypeOK
<1>1. IInv => TypeOK
  BY DEF IInv, Shape
<1> QED
  BY <1>1, Invariance, PTL

\* Single flight works within each refresher: /auth/refresh refuses a browser
\* that lost nothing, and whose session has not ended, only after the proxy and
\* a tab, or two tabs, were at work on its family at the same time.
THEOREM RefusalCorrect == Spec => []RefusedOnlyAfterOverlap
<1>1. IInv => RefusedOnlyAfterOverlap
  <2> SUFFICES ASSUME IInv, NEW c \in Callers, call[c].out = "rejected",
                      losses = 0, family[call[c].tok] \notin overlapped
               PROVE  Ended(call[c].tok)
    BY NamesAssumption DEF RefusedOnlyAfterOverlap, IInv, Shape, TypeOK
  <2>1. PICK f : FamilyInv(f)
    BY DEF IInv
  <2>2. call[c] # NoFlight
    BY NamesAssumption DEF NoFlight
  <2>3. Clean(f)
    BY <2>1, <2>2 DEF FamilyInv, OfFamily, Clean
  <2> QED
    BY ONLY <2>1, <2>3, c \in Callers, call[c].out = "rejected"
    DEF FamilyInv, CleanInv, RevokedForAReason
<1> QED
  BY <1>1, Invariance, PTL

\* At rest the cookie is the one live token of its family: no rotation leaves a
\* second one behind, and no late response puts an older token back.
THEOREM JarCorrect == Spec => []JarHoldsTheLiveToken
<1>1. IInv => JarHoldsTheLiveToken
  <2> SUFFICES ASSUME IInv, Quiet, losses = 0, jar # None, ~Ended(jar), family[jar] \notin overlapped
               PROVE  \A k \in Tokens : family[k] = family[jar] /\ row[k] = "live" <=> k = jar
    BY DEF JarHoldsTheLiveToken, IInv, Shape, TypeOK
  <2>1. PICK f : FamilyInv(f)
    BY DEF IInv
  <2>2. family[jar] = f /\ CleanInv(f)
    BY <2>1 DEF FamilyInv, OfFamily, Clean
  <2>3. jar \in Tokens /\ row[jar] \in {"unused", "live", "revoked", "purged"}
    BY DEF IInv, Shape, TypeOK
  <2>4. row[jar] = "live"
    <3>1. row[jar] \notin {"unused", "purged"}
      BY <2>3 DEF IInv, Shape, RowsKnown, Ended
    <3>2. row[jar] # "revoked"
      BY <2>2, NamesAssumption DEF CleanInv, RevokedForAReason, Good, Quiet, NoFlight
    <3> QED
      BY ONLY <2>3, <3>1, <3>2
  <2>5. \A k \in Tokens : Handled(k) => k = jar
    BY ONLY Quiet DEF Quiet, Handled
  <2> QED
    BY ONLY <2>2, <2>3, <2>4, <2>5, jar # None DEF CleanInv, LiveHandled, Current
<1> QED
  BY <1>1, Invariance, PTL
=============================================================================
