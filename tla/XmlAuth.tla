------------------------------ MODULE XmlAuth ------------------------------
(***************************************************************************)
(* Authentication of the manager application: the streaming XML parser     *)
(* (xml.c) and the search for the manager's certificate in packages.xml    *)
(* (auth.c).  The text arrives in buffers cut anywhere.  Names, and the    *)
(* parts of a value, are single characters; white space is " ".            *)
(***************************************************************************)
EXTENDS Integers, Sequences

CONSTANTS XmlBuf,      \* XML_BUF_SIZE
          ManagerName, \* manager_app_name, a sequence of characters
          CertKey,     \* cert_key
          Names, Keys  \* names of packages, keys of certificates

ASSUME XmlAssumption == XmlBuf \in Nat /\ XmlBuf > 2 /\ ManagerName \in Names /\ CertKey \in Keys

VARIABLES doc,  \* the packages of the document, as a tree
          text, \* what is still to be received of it
          xml,  \* XML_CONTEXT
          au    \* static variables of auth.c; verdict: what AuthProcess has returned

xVars == <<doc, text, xml, au>>

-----------------------------------------------------------------------------
(* The document (external): packages with a name and certificates.         *)

Flat(ss) == LET f[i \in 0 .. Len(ss)] == IF i = 0 THEN <<>> ELSE f[i - 1] \o ss[i] IN f[Len(ss)]

NoKey == <<"none">>
Attr(n, v, q) == <<" ", n, "=", q>> \o v \o <<q>>
Cert(k) == IF k = NoKey THEN <<"<", "c">> \o Attr("i", <<"1">>, "\"") \o <<"/", ">">>
           ELSE <<"<", "c">> \o Attr("k", k, "'") \o <<" ", "/", ">">>
\* A package with signatures, or with its signatures inside an element that is none.
Package(p) ==
  <<"<", "p">> \o Attr("n", p.name, "\"") \o <<">">>
  \o (IF p.nested THEN <<"<", "x", ">">> ELSE <<>>)
  \o <<"<", "s", ">">> \o Flat([i \in DOMAIN p.certs |-> Cert(p.certs[i])]) \o <<"<", "/", "s", " ", ">">>
  \o (IF p.nested THEN <<"<", "/", "x", ">">> ELSE <<>>)
  \o <<"<", "/", "p", ">">>
Text(d) ==
  <<"<", "?", "x">> \o Attr("v", <<"1">>, "'") \o <<" ", "?", ">", "z", "<", "P", ">">>
  \o Flat([i \in DOMAIN d |-> Package(d[i])]) \o <<"<", "/", "P", ">">>

Packages == [name : Names, certs : {<<>>} \cup {<<k>> : k \in Keys \cup {NoKey}} \cup {<<NoKey, k>> : k \in Keys}, nested : BOOLEAN]
Documents == {<<p>> : p \in Packages} \cup {<<p, q>> : p \in {r \in Packages : ~r.nested /\ Len(r.certs) <= 1}, q \in Packages}

XmlStart == [state |-> "CHARACTERS", buf |-> <<>>, apos |-> FALSE, proc |-> FALSE]
AuthStart == [state |-> "TOP", depth |-> 0, matches |-> FALSE, name |-> <<>>, key |-> 0, verdict |-> "BUSY"]

XmlInit == doc \in Documents /\ text = Text(doc) /\ xml = XmlStart /\ au = AuthStart

-----------------------------------------------------------------------------
(* Callbacks of auth.c.                                                    *)

\* Mutant: the depth of the signatures in the package is not looked at.
StartElementAnyDepth(a, n) ==
  LET next == CASE a.state = "TOP" /\ a.depth = 0 /\ n = <<"P">> -> "PACKAGES"
                [] a.state = "PACKAGES" /\ a.depth = 1 /\ n = <<"p">> -> "PACKAGE"
                [] a.state = "PACKAGE" /\ n = <<"s">> -> "SIGS"
                [] a.state = "SIGS" /\ n = <<"c">> -> "CERT"
                [] OTHER -> a.state
  IN [a EXCEPT !.state = next, !.depth = @ + 1, !.matches = FALSE]

StartElement(a, n) ==
  LET next == CASE a.state = "TOP" /\ a.depth = 0 /\ n = <<"P">> -> "PACKAGES"
                [] a.state = "PACKAGES" /\ a.depth = 1 /\ n = <<"p">> -> "PACKAGE"
                [] a.state = "PACKAGE" /\ a.depth = 2 /\ a.matches /\ n = <<"s">> -> "SIGS"
                [] a.state = "SIGS" /\ a.depth = 3 /\ a.matches /\ n = <<"c">> -> "CERT"
                [] OTHER -> a.state
  IN [a EXCEPT !.state = next, !.depth = @ + 1, !.matches = @ /\ ~(a.state = "PACKAGES" /\ next = "PACKAGE")]

EndElement(a) ==
  [a EXCEPT !.depth = @ - 1,
            !.state = CASE @ = "PACKAGES" /\ a.depth = 1 -> "TOP"
                        [] @ = "PACKAGE" /\ a.depth = 2 -> "PACKAGES"
                        [] @ = "SIGS" /\ a.depth = 3 -> "PACKAGE"
                        [] @ = "CERT" /\ a.depth = 4 -> "SIGS"
                        [] OTHER -> @]

StartAttribute(a, n) ==
  CASE a.state = "PACKAGE" /\ a.depth = 2 /\ n = <<"n">> -> [a EXCEPT !.state = "NAME_ATTR", !.name = <<>>, !.depth = @ + 1]
    [] a.state = "CERT" /\ a.depth = 4 /\ n = <<"k">> -> [a EXCEPT !.state = "CERT_KEY", !.key = 0, !.depth = @ + 1]
    [] OTHER -> [a EXCEPT !.depth = @ + 1]

EndAttribute(a) ==
  [a EXCEPT !.depth = @ - 1,
            !.matches = @ \/ (a.state = "NAME_ATTR" /\ a.name = ManagerName),
            !.state = CASE @ = "NAME_ATTR" -> "PACKAGE"
                        [] @ = "CERT_KEY" -> IF a.key = Len(CertKey) THEN "DONE_PASS" ELSE "DONE_FAIL"
                        [] @ = "CERT_FAIL" -> "DONE_FAIL"
                        [] OTHER -> @]

\* The buffer for the name has room for one character more than the manager's.
Characters(a, s) ==
  CASE s = <<>> -> a
    [] s # <<>> /\ a.state = "NAME_ATTR" ->
         IF Len(a.name) + Len(s) <= Len(ManagerName) + 1 THEN [a EXCEPT !.name = @ \o s] ELSE [a EXCEPT !.state = "PACKAGE"]
    [] s # <<>> /\ a.state = "CERT_KEY" ->
         IF a.key + Len(s) <= Len(CertKey) /\ SubSeq(CertKey, a.key + 1, a.key + Len(s)) = s
         THEN [a EXCEPT !.key = @ + Len(s)] ELSE [a EXCEPT !.state = "CERT_FAIL"]
    [] OTHER -> a

-----------------------------------------------------------------------------
(* XMLProcess: one character per step.                                     *)

Err(a) == <<[xml EXCEPT !.state = "ERROR"], [a EXCEPT !.state = "ERROR"]>>
To(s) == <<[xml EXCEPT !.state = s], au>>
Keep(c) == <<[xml EXCEPT !.buf = Append(@, c)], au>>
\* FlushBuf in the state that is left, then the next state.
FlushTo(s) ==
  <<[xml EXCEPT !.state = s, !.buf = <<>>],
    CASE xml.state \in {"CHARACTERS", "ATTRIBUTE_VALUE"} -> Characters(au, xml.buf)
      [] xml.state = "ELEMENT_NAME" -> IF xml.buf = <<>> THEN [au EXCEPT !.state = "ERROR"]
                                       ELSE IF xml.proc THEN au ELSE StartElement(au, xml.buf)
      [] xml.state = "ATTRIBUTE_NAME" -> StartAttribute(au, xml.buf)
      [] xml.state \in {"ELEMENT_OPEN_EMPTY", "ELEMENT_CLOSE_NAME"} -> EndElement(au)>>

InCharacters(c) ==
  IF c = "<" THEN <<[FlushTo("ELEMENT_NAME")[1] EXCEPT !.proc = FALSE], FlushTo("ELEMENT_NAME")[2]>> ELSE Keep(c)
InElementName(c) ==
  CASE c = " " -> FlushTo("ELEMENT_OPEN")
    [] c = ">" -> FlushTo("CHARACTERS")
    [] c = "/" -> IF xml.buf # <<>> THEN FlushTo("ELEMENT_OPEN_EMPTY") ELSE To("ELEMENT_CLOSE_NAME")
    [] c = "?" /\ xml.buf = <<>> -> <<[xml EXCEPT !.proc = TRUE], au>>
    [] OTHER -> Keep(c)
InElementOpen(c) ==
  CASE c = " " -> To("ELEMENT_OPEN")
    [] c = ">" -> IF xml.proc THEN Err(au) ELSE To("CHARACTERS")
    [] c = "?" -> IF xml.proc THEN To("PROC_INST_WAIT_CLOSE") ELSE Err(au)
    [] c = "/" -> To("ELEMENT_OPEN_EMPTY")
    [] OTHER -> <<[Keep(c)[1] EXCEPT !.state = "ATTRIBUTE_NAME"], au>>
InOpenEmpty(c) == IF c = " " THEN To("ELEMENT_OPEN_EMPTY") ELSE IF c = ">" THEN FlushTo("CHARACTERS") ELSE Err(au)
InAttributeName(c) ==
  CASE c = " " -> FlushTo("ATTRIBUTE_WAIT_EQ") [] c = "=" -> FlushTo("ATTRIBUTE_WAIT_QUOT") [] OTHER -> Keep(c)
InWaitEq(c) == IF c = " " THEN To(xml.state) ELSE IF c = "=" THEN To("ATTRIBUTE_WAIT_QUOT") ELSE Err(au)
InWaitQuot(c) ==
  IF c = " " THEN To(xml.state)
  ELSE IF c \in {"\"", "'"} THEN <<[xml EXCEPT !.state = "ATTRIBUTE_VALUE", !.apos = c = "'"], au>> ELSE Err(au)
InAttributeValue(c) ==
  IF c = (IF xml.apos THEN "'" ELSE "\"")
  THEN <<FlushTo("ELEMENT_OPEN")[1], EndAttribute(FlushTo("ELEMENT_OPEN")[2])>> ELSE Keep(c)
InClose(c) == IF c = " " THEN To(xml.state) ELSE IF c = ">" THEN To("CHARACTERS") ELSE Err(au)
InCloseName(c) == CASE c = " " -> FlushTo("ELEMENT_CLOSE") [] c = ">" -> FlushTo("CHARACTERS") [] OTHER -> Keep(c)
InProcInst(c) == IF c = ">" THEN To("CHARACTERS") ELSE Err(au)

XmlStep(c) ==
  CASE xml.state = "CHARACTERS" -> InCharacters(c)
    [] xml.state = "ELEMENT_NAME" -> InElementName(c)
    [] xml.state = "ELEMENT_OPEN" -> InElementOpen(c)
    [] xml.state = "ELEMENT_OPEN_EMPTY" -> InOpenEmpty(c)
    [] xml.state = "ATTRIBUTE_NAME" -> InAttributeName(c)
    [] xml.state = "ATTRIBUTE_WAIT_EQ" -> InWaitEq(c)
    [] xml.state = "ATTRIBUTE_WAIT_QUOT" -> InWaitQuot(c)
    [] xml.state = "ATTRIBUTE_VALUE" -> InAttributeValue(c)
    [] xml.state = "ELEMENT_CLOSE" -> InClose(c)
    [] xml.state = "ELEMENT_CLOSE_NAME" -> InCloseName(c)
    [] xml.state = "PROC_INST_WAIT_CLOSE" -> InProcInst(c)

Textual == xml.state \in {"CHARACTERS", "ATTRIBUTE_VALUE"}
Feeding == au.verdict = "BUSY" /\ text # <<>> /\ xml.state # "ERROR"
Full == Len(xml.buf) > XmlBuf - 2

\* The buffer is full: text is passed on, a name that long is an error.
XmlFull ==
  /\ Feeding /\ Full
  /\ LET r == IF Textual THEN FlushTo(xml.state) ELSE Err(au) IN xml' = r[1] /\ au' = r[2]
  /\ UNCHANGED <<doc, text>>

XmlChar ==
  /\ Feeding /\ ~Full
  /\ LET r == XmlStep(Head(text)) IN xml' = r[1] /\ au' = r[2]
  /\ text' = Tail(text) /\ UNCHANGED doc

\* The end of a buffer: XMLProcess passes on the text it has, AuthProcess returns.
BufferEnds ==
  /\ au.verdict = "BUSY" /\ text # Text(doc)
  /\ LET r == IF Textual THEN FlushTo(xml.state) ELSE <<xml, au>> IN
       /\ xml' = r[1]
       /\ au' = [r[2] EXCEPT !.verdict = IF xml.state = "ERROR" THEN "ERROR"
                                         ELSE IF r[2].state \in {"DONE_PASS", "DONE_FAIL", "ERROR"} THEN r[2].state ELSE @]
  /\ xml' # xml \/ au' # au
  /\ UNCHANGED <<doc, text>>

XmlNext == XmlChar \/ XmlFull \/ BufferEnds
XmlSpec == XmlInit /\ [][XmlNext]_xVars

-----------------------------------------------------------------------------
\* What the certificates say: the first key among the signatures of a package with the
\* manager's name is the manager's; no other element of the document counts.
KeysOf(p) == SelectSeq(p.certs, LAMBDA k : k # NoKey)
Counts(p) == p.name = ManagerName /\ ~p.nested /\ KeysOf(p) # <<>>
Expected ==
  IF \A i \in DOMAIN doc : ~Counts(doc[i]) THEN "BUSY"
  ELSE LET i == CHOOSE j \in DOMAIN doc : Counts(doc[j]) /\ \A k \in 1 .. j - 1 : ~Counts(doc[k])
       IN IF KeysOf(doc[i])[1] = CertKey THEN "DONE_PASS" ELSE "DONE_FAIL"

\* However the text is cut into buffers, the verdict is the one the document deserves.
VerdictIsRight ==
  /\ au.verdict \in {"BUSY", Expected}
  /\ text = <<>> /\ ~ENABLED BufferEnds => au.verdict = Expected
=============================================================================
