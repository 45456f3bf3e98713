---------------------------- MODULE CreateNodeForm ----------------------------
(***************************************************************************)
(* The create-node form (src/frontend/src/js/CreateNode.js and the        *)
(* SkInput it renders its fields with).                                    *)
(*                                                                         *)
(* Each field is a controlled input: typing calls its setter, leaving it  *)
(* (onBlur) runs its check on the text.  checkName and checkIp are async: *)
(* after the synchronous tests they set validating (which disables the     *)
(* input) and await /check-node-name or /check-node-ip; the answer sets    *)
(* valid, error and validating back.  checkPort and checkPublicIP never    *)
(* await, so their setState happens in the blur itself.  The button is     *)
(* disabled while any error string is set; createNode returns unless all  *)
(* four valid flags are true, and otherwise sends the form and leaves the *)
(* page.                                                                   *)
(*                                                                         *)
(* Pressing the button blurs the focused input (mousedown) before the     *)
(* click (mouseup) runs createNode; they are two events, and a check's    *)
(* answer may or may not arrive between them.                              *)
(*                                                                         *)
(* Data: a name is a short string, an IP the sequence of numbers between  *)
(* its dots (<<>> for the empty text), a port text the value JavaScript's *)
(* Number() gives it, which `value > 0` applies.                           *)
(***************************************************************************)
EXTENDS Naturals, Sequences, FiniteSets

CONSTANTS
  Names,        \* texts the user may type as the name ("" included)
  Ips,          \* IP texts, as their dot-separated numbers (<<>> included)
  TakenNames,   \* names /check-node-name reports as taken
  TakenIps,     \* IPs /check-node-ip reports as taken
  MaxEdits      \* typing steps (model bound)

ASSUME "" \in Names /\ <<>> \in Ips
ASSUME TakenNames \subseteq Names /\ TakenIps \subseteq Ips

Fields      == {"name", "ip", "publicIP", "port"}
AsyncFields == {"name", "ip"}

\* Port texts: the empty text, decimal numbers, and text that is no number.
PortTexts == {[kind |-> "empty", n |-> 0], [kind |-> "junk", n |-> 0]}
             \cup {[kind |-> "number", n |-> k] : k \in {0, 1, 65534, 65535, 65536}}

Inputs(f) == CASE f = "name" -> Names
               [] f \in {"ip", "publicIP"} -> Ips
               [] f = "port" -> PortTexts

\* isValidIp: four dot-separated numbers, each at most 255.
isValidIp(v) == Len(v) = 4 /\ \A i \in 1..4 : v[i] <= 255

\* isValidPort: value > 0 && value < 65535, on Number(value); NaN fails
\* both comparisons and the empty text is 0.
isValidPort(v) == v.kind /= "junk" /\ v.n > 0 /\ v.n < 65535

\* What this.state.valid* holds: undefined until the first check.
Verdicts == {"unset", "yes", "no"}

VARIABLES
  value,        \* value[f]: the field's text (skaleNodeName, nodeIp, ...)
  valid,        \* valid[f]: validNodeName, validNodeIp, ...
  error,        \* error[f]: an error string is set (nodeNameError, ...)
  validating,   \* validating[f]: validatingName, ... (input disabled)
  pending,      \* pending[f]: the texts of the awaited checks in flight
  focused,      \* the input that has focus, or "none"
  submitted,    \* the forms createNode has sent
  edits         \* typing steps so far

vars == <<value, valid, error, validating, pending, focused, submitted, edits>>

TypeOK ==
  /\ \A f \in Fields : value[f] \in Inputs(f)
  /\ valid \in [Fields -> Verdicts]
  /\ error \in [Fields -> BOOLEAN]
  /\ validating \in [Fields -> BOOLEAN]
  /\ \A f \in Fields : pending[f] \subseteq Inputs(f) /\ Cardinality(pending[f]) <= 1
  /\ focused \in Fields \cup {"none"}
  /\ \A fm \in submitted : DOMAIN fm = Fields /\ \A f \in Fields : fm[f] \in Inputs(f)
  /\ edits \in 0..MaxEdits

\* The constructor: every text '', nothing checked.
Init ==
  /\ value = [f \in Fields |-> CASE f = "name" -> ""
                                 [] f \in {"ip", "publicIP"} -> <<>>
                                 [] f = "port" -> [kind |-> "empty", n |-> 0]]
  /\ valid = [f \in Fields |-> "unset"]
  /\ error = [f \in Fields |-> FALSE]
  /\ validating = [f \in Fields |-> FALSE]
  /\ pending = [f \in Fields |-> {}]
  /\ focused = "none"
  /\ submitted = {}
  /\ edits = 0

Mounted == submitted = {}

\* A check's setState {validating*: false, valid*: r, *Error: ...}.
Settle(f, r) ==
  /\ valid' = [valid EXCEPT ![f] = r]
  /\ error' = [error EXCEPT ![f] = (r = "no")]
  /\ validating' = [validating EXCEPT ![f] = FALSE]

\* An async check reaches its await: setState {validating*: true}, fetch.
Await(f, v) ==
  /\ validating' = [validating EXCEPT ![f] = TRUE]
  /\ pending' = [pending EXCEPT ![f] = @ \cup {v}]
  /\ UNCHANGED <<valid, error>>

(* checkName: an empty name fails at once; any other awaits               *)
(* /check-node-name.                                                       *)
checkName(v) ==
  IF v = "" THEN Settle("name", "no") /\ UNCHANGED pending
            ELSE Await("name", v)

(* checkIp: an empty or malformed IP fails at once; a well-formed one     *)
(* awaits /check-node-ip.                                                  *)
checkIp(v) ==
  IF v = <<>> \/ ~isValidIp(v) THEN Settle("ip", "no") /\ UNCHANGED pending
                               ELSE Await("ip", v)

(* checkPort: the empty test and then isValidPort, whose message wins.    *)
checkPort(v) ==
  /\ Settle("port", IF v.kind /= "empty" /\ isValidPort(v) THEN "yes" ELSE "no")
  /\ UNCHANGED pending

\* Mutant: only the empty test, the isValidIp branch dropped.
checkPublicIPEmptyOnly(v) ==
  /\ Settle("publicIP", IF v /= <<>> THEN "yes" ELSE "no")
  /\ UNCHANGED pending

(* checkPublicIP: the empty test and then isValidIp; no backend call.     *)
checkPublicIP(v) ==
  /\ Settle("publicIP", IF v /= <<>> /\ isValidIp(v) THEN "yes" ELSE "no")
  /\ UNCHANGED pending

\* SkInput's onBlur: the field's check on the field's text.
Blur(f) ==
  CASE f = "name"     -> checkName(value[f])
    [] f = "ip"       -> checkIp(value[f])
    [] f = "publicIP" -> checkPublicIP(value[f])
    [] f = "port"     -> checkPort(value[f])

(***************************************************************************)
(* The user                                                                *)
(***************************************************************************)

\* Mutant: the input is not disabled while its check is in flight.
FocusWhileValidating(f) ==
  /\ Mounted /\ focused /= f
  /\ IF focused = "none" THEN UNCHANGED <<valid, error, validating, pending>>
                         ELSE Blur(focused)
  /\ focused' = f
  /\ UNCHANGED <<value, submitted, edits>>

(* Focus an input that is not disabled; the one that had focus blurs.     *)
Focus(f) ==
  /\ Mounted /\ ~validating[f] /\ focused /= f
  /\ IF focused = "none" THEN UNCHANGED <<valid, error, validating, pending>>
                         ELSE Blur(focused)
  /\ focused' = f
  /\ UNCHANGED <<value, submitted, edits>>

(* Click elsewhere, or press the button (mousedown): the input blurs.     *)
Leave ==
  /\ Mounted /\ focused /= "none"
  /\ Blur(focused)
  /\ focused' = "none"
  /\ UNCHANGED <<value, submitted, edits>>

(* onChange: setNodeName, setNodeIp, setNodePublicIP, setNodePort.        *)
Type(f, v) ==
  /\ Mounted /\ focused = f /\ edits < MaxEdits
  /\ v /= value[f]
  /\ value' = [value EXCEPT ![f] = v]
  /\ edits' = edits + 1
  /\ UNCHANGED <<valid, error, validating, pending, focused, submitted>>

(* The click on the button (enabled while no error string is set) runs    *)
(* createNode; with all four valid flags true it sends the form and       *)
(* pushes '/installing-node', which unmounts the page.  Otherwise it      *)
(* returns and nothing changes.                                            *)
createNode ==
  /\ Mounted /\ focused = "none"
  /\ \A f \in Fields : ~error[f]
  /\ \A f \in Fields : valid[f] = "yes"
  /\ submitted' = {value}
  /\ UNCHANGED <<value, valid, error, validating, pending, focused, edits>>

(***************************************************************************)
(* The answers of /check-node-name and /check-node-ip                      *)
(***************************************************************************)

\* After the await: setState {validating*: false, valid*: valid, *Error}.
\* Once the page has gone the setState is dropped.
Resume(f, taken) ==
  \E v \in pending[f] :
    /\ pending' = [pending EXCEPT ![f] = @ \ {v}]
    /\ IF Mounted THEN Settle(f, IF v \in taken THEN "no" ELSE "yes")
                  ELSE UNCHANGED <<valid, error, validating>>
    /\ UNCHANGED <<value, focused, submitted, edits>>

checkNameResumes == Resume("name", TakenNames)
checkIpResumes   == Resume("ip", TakenIps)

(* The check's fetch rejects: the async function rejects with nobody to   *)
(* catch it, and validating stays set.                                     *)
CheckFail(f) ==
  /\ \E v \in pending[f] : pending' = [pending EXCEPT ![f] = @ \ {v}]
  /\ UNCHANGED <<value, valid, error, validating, focused, submitted, edits>>

Next ==
  \/ \E f \in Fields : Focus(f) \/ \E v \in Inputs(f) : Type(f, v)
  \/ Leave \/ createNode
  \/ checkNameResumes \/ checkIpResumes
  \/ \E f \in AsyncFields : CheckFail(f)

Spec == Init /\ [][Next]_vars

(***************************************************************************)
(* Properties                                                              *)
(***************************************************************************)

\* The forms the step sends.
Sent == submitted' \ submitted

(* The port and public IP createNode sends are ones their checks accept:  *)
(* pressing the button blurs the focused input, and checkPort and          *)
(* checkPublicIP set their flags in the blur itself.                       *)
SyncFieldsChecked ==
  [][\A fm \in Sent : /\ isValidPort(fm["port"])
                      /\ fm["publicIP"] /= <<>> /\ isValidIp(fm["publicIP"])]_vars

(* spec.md 6: validation blocks submission while any field is invalid:   *)
(* the name and IP createNode sends are free and well formed.  The blur   *)
(* of the button press starts checkName or checkIp, and createNode reads   *)
(* validNodeName and validNodeIp before the check answers.                 *)
AsyncFieldsChecked ==
  [][\A fm \in Sent : /\ fm["name"] /= "" /\ fm["name"] \notin TakenNames
                      /\ isValidIp(fm["ip"]) /\ fm["ip"] \notin TakenIps]_vars

=============================================================================
