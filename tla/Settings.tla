------------------------------ MODULE Settings ------------------------------
(***************************************************************************)
(* The settings: config.c, the two handlers of web_server.c that show and   *)
(* change them, the reset button of main.c, and their readers.              *)
(*   W  the web server's task: config_get_handler, config_post_handler      *)
(*   R  config_restart_task, created by each form                           *)
(*   B  reset_button_task                                                   *)
(*   T  an interface's task, which reads a text whenever it connects        *)
(* CONFIG_ITEMS is abstracted to the kinds of its items, and a value to     *)
(* what the code tells apart: a text is its length, a color the number      *)
(* 2 * rgb + alpha, with 0 for black and for transparent.  A text "message"  *)
(* of length 1 is a line break.  A number is what strtol and strtoul make of *)
(* the field, and its item holds those below NumberRange.  The NVS library   *)
(* writes an item to the flash in the call that sets it.                    *)
(***************************************************************************)
EXTENDS Integers, Sequences

CONSTANT Tables  \* the tables of items considered: sequences of kinds

\* A kind of item is named for an example, and described by its default:
\* "message" is sck_cli_msg, "ssid" w_ap_ssid, "pin" bt_pin_code; "misread" are
\* the items that uart.c reads with the getter of another type.
Default == [text |-> 0, secret |-> 0, message |-> 1, ssid |-> 0, black |-> 1,
            blue |-> 3, number |-> 1, pin |-> 1, misread |-> 1]
Kinds   == DOMAIN Default
Texts   == {"text", "secret", "message", "ssid"}
Colors  == {"black", "blue"}
Secrets == {"secret", "pin"}
Numbers == {"number", "pin", "misread"}

ASSUME TablesAssumption == Tables \subseteq Seq(Kinds) \ {<<>>}

MaxText   == 2   \* the longest text, also the generated name of the access point
NumberRange == 2 \* what fits into the type of a number's item
NOT_FOUND == -1  \* no such key in the NVS; in a form or promise: nothing asked
CONFIG_VALUE_UNCHANGED == -2
BLANK     == -3  \* a field left empty, or no number
ABSENT    == -4  \* a disabled field is not sent

VARIABLES
  table,       \* CONFIG_ITEMS
  nvs,         \* the stored value of each item
  on,          \* the device runs
  restarting,  \* a restart task exists
  wpc, row, wlen, form, \* W: program counter, item, length read, form being handled
  own,         \* W: the form comes from the observed page
  bpc,         \* B: program counter
  trow, tlen,  \* T: the text being read, and its length as first read
  garbage,     \* T uses a buffer that was allocated but not filled
  overrun,     \* a default was copied into a buffer too small for it
  page, shown, \* a page in somebody's browser, and the values it got
  kept,        \* history: its items that nobody has written since
  asked,       \* history: what the form being handled has asked for so far
  promise,     \* history: what each item was last set to, as acknowledged
  erased       \* history: items that have been erased since they were last set

device  == <<on, restarting>>
wvars   == <<wpc, row, wlen, form, own>>
tvars   == <<trow, tlen, garbage, overrun>>
browser == <<page, shown, kept>>
history == <<asked, promise, erased>>
vars    == <<table, nvs, device, wvars, bpc, tvars, browser, history>>

Rows == DOMAIN table
Each(x) == [r \in Rows |-> x]

-----------------------------------------------------------------------------
(* Values *)

\* The getters: the default, unless the item is found with the type asked for.
config_get_primitive(r) == IF nvs[r] = NOT_FOUND THEN Default[table[r]] ELSE nvs[r]
config_get(r) ==
  IF table[r] = "misread" THEN Default[table[r]] ELSE config_get_primitive(r)

\* A mutant of Size: two bytes per character.
SizeWide(text) == 2 * text + 1

\* Bytes of a text, with its end.
Size(text) == text + 1

\* What somebody who sees or picks this value thinks of: a color has no alpha.
Seen(k, v) == IF k \in Colors THEN v \div 2 ELSE v

\* What the page is sent.  A secret that is not empty is hidden.
Shown(k, v) ==
  IF k = "pin" \/ (k = "secret" /\ v > 0) THEN CONFIG_VALUE_UNCHANGED ELSE Seen(k, v)

\* What a field can hold: a number may be too large for its item.
Fields(k) ==
  {ABSENT} \cup (IF k \in Secrets THEN {CONFIG_VALUE_UNCHANGED} ELSE {})
           \cup (IF k \in Texts THEN 0 .. MaxText
                 ELSE IF k \in Colors THEN 0 .. 1 ELSE {BLANK} \cup 0 .. 2 * NumberRange - 1)

\* What the page sends of a value that it holds.  Its input for the pin is commented
\* out; jQuery's serializeArray sends a line break as two characters.
Posted(k, v) ==
  IF k = "pin" THEN ABSENT ELSE IF k = "message" /\ v = 1 THEN 2 ELSE v

\* Mutants of Requested: black is taken for a color that strtoul could not read; the
\* marker of a hidden secret is stored like any other text.
RequestedNoBlack(k, field) ==
  IF field \in {ABSENT, BLANK, CONFIG_VALUE_UNCHANGED} THEN NOT_FOUND
  ELSE IF k \in Numbers THEN field % NumberRange
  ELSE IF k \notin Colors THEN field
  ELSE IF field = 0 THEN NOT_FOUND ELSE 2 * field + (Default[k] % 2)

RequestedMarker(k, field) ==
  IF field \in {ABSENT, BLANK} THEN NOT_FOUND
  ELSE IF field = CONFIG_VALUE_UNCHANGED THEN MaxText
  ELSE IF k \in Numbers THEN field % NumberRange
  ELSE IF k \in Colors /\ field # 0 THEN 2 * field + (Default[k] % 2) ELSE field

\* The value that a field makes config_post_handler set, if any.  A color that is
\* not black gets the alpha of the default; config_set cuts a number to its type.
Requested(k, field) ==
  IF field \in {ABSENT, BLANK, CONFIG_VALUE_UNCHANGED} THEN NOT_FOUND
  ELSE IF k \in Numbers THEN field % NumberRange
  ELSE IF k \in Colors /\ field # 0 THEN 2 * field + (Default[k] % 2) ELSE field

\* What its sender expects of it.
Expected(field) == IF field < 0 THEN NOT_FOUND ELSE field

Stored == 0 .. 3

TypeOK ==
  /\ table \in Tables
  /\ nvs \in [Rows -> Stored \cup {NOT_FOUND}]
  /\ on \in BOOLEAN /\ restarting \in BOOLEAN
  /\ wpc \in {"idle", "item", "value", "set", "restart", "respond"}
  /\ row \in 0 .. Len(table) + 1 /\ wlen \in 0 .. MaxText + 1
  /\ form \in [Rows -> -4 .. 3] /\ own \in BOOLEAN
  /\ bpc \in {"idle", "erased"}
  /\ trow \in 0 .. Len(table) /\ tlen \in 0 .. MaxText + 1
  /\ garbage \in BOOLEAN /\ overrun \in BOOLEAN
  /\ page \in {"none", "loading", "open"}
  /\ shown \in [Rows -> -4 .. 3] /\ kept \subseteq Rows
  /\ asked \in [Rows -> -1 .. 3] /\ promise \in [Rows -> -1 .. 3] /\ erased \subseteq Rows

Init ==
  /\ table \in Tables
  /\ nvs = Each(NOT_FOUND) /\ on = FALSE /\ restarting = FALSE
  /\ wpc = "idle" /\ row = 0 /\ wlen = 0 /\ form = Each(ABSENT) /\ own = FALSE
  /\ bpc = "idle"
  /\ trow = 0 /\ tlen = 0 /\ garbage = FALSE /\ overrun = FALSE
  /\ page = "none" /\ shown = Each(ABSENT) /\ kept = {}
  /\ asked = Each(NOT_FOUND) /\ promise = Each(NOT_FOUND) /\ erased = {}

-----------------------------------------------------------------------------
(* The device starts and stops *)

\* wifi_init stores a name for an access point that is active and has none.
Named(values) ==
  [r \in Rows |-> IF table[r] = "ssid" /\ values[r] \in {0, NOT_FOUND}
                  THEN MaxText ELSE values[r]]

Start(values) ==
  /\ ~on /\ on' = TRUE
  /\ nvs' \in {values, Named(values)}
  /\ kept' = {r \in kept : nvs'[r] = nvs[r]}
  /\ UNCHANGED <<table, restarting, wvars, bpc, tvars, page, shown, asked, promise>>

Boot == Start(nvs) /\ UNCHANGED erased

\* config_init finds no free page, or a version it does not know.
BootErased == Start(Each(NOT_FOUND)) /\ erased' = Rows

\* The browser keeps a page that has been loaded.
Stop ==
  /\ on /\ on' = FALSE /\ restarting' = FALSE
  /\ wpc' = "idle" /\ row' = 0 /\ wlen' = 0 /\ form' = Each(ABSENT) /\ own' = FALSE
  /\ bpc' = "idle"
  /\ trow' = 0 /\ tlen' = 0 /\ garbage' = FALSE /\ overrun' = FALSE
  /\ page' = (IF page = "loading" THEN "none" ELSE page)
  /\ asked' = Each(NOT_FOUND)
  /\ UNCHANGED <<table, nvs, shown, kept, promise, erased>>

PowerLoss == Stop

\* R: config_restart_task
RRestart == restarting /\ Stop

-----------------------------------------------------------------------------
(* B: reset_button_task *)

\* config_reset; there is no commit.
BErase ==
  /\ on /\ bpc = "idle" /\ bpc' = "erased"
  /\ nvs' = Each(NOT_FOUND)
  /\ kept' = {} /\ erased' = Rows
  /\ UNCHANGED <<table, device, wvars, tvars, page, shown, asked, promise>>

BRestart == bpc = "erased" /\ Stop

-----------------------------------------------------------------------------
(* T: config_get_str_blob_alloc, in an interface's task *)

\* The length is read, and a buffer of that size allocated.
TMeasure(r) ==
  /\ on /\ tlen = 0 /\ table[r] \in Texts
  /\ trow' = r /\ tlen' = Size(config_get(r))
  /\ garbage' = FALSE
  /\ UNCHANGED <<table, nvs, device, wvars, bpc, overrun, browser, history>>

\* A stored text that is too long is refused, a default is copied anyway.  No
\* caller looks at the result.
TRead ==
  /\ on /\ tlen > 0 /\ tlen' = 0 /\ trow' = 0
  /\ garbage' = (nvs[trow] # NOT_FOUND /\ Size(nvs[trow]) > tlen)
  /\ overrun' = (overrun \/ (nvs[trow] = NOT_FOUND /\ Size(config_get(trow)) > tlen))
  /\ UNCHANGED <<table, nvs, device, wvars, bpc, browser, history>>

-----------------------------------------------------------------------------
(* W: config_get_handler, for the observed page *)

WGet ==
  /\ on /\ wpc = "idle" /\ wpc' = "item" /\ row' = 1
  /\ page' = "loading" /\ shown' = Each(ABSENT) /\ kept' = {}
  /\ UNCHANGED <<table, nvs, device, wlen, form, own, bpc, tvars, history>>

WMeasure ==
  /\ wpc = "item" /\ table[row] \in Texts
  /\ wpc' = "value" /\ wlen' = Size(config_get(row))
  /\ UNCHANGED <<table, nvs, device, row, form, own, bpc, tvars, browser, history>>

\* After the last item the answer is sent, if it fits into the buffer.
WShow ==
  /\ wpc \in {"item", "value"}
  /\ wpc = "item" => table[row] \notin Texts
  /\ LET v == config_get_primitive(row) IN
     /\ shown' = [shown EXCEPT ![row] = Shown(table[row], v)]
     /\ overrun' = (overrun \/ (table[row] \in Texts /\ Size(v) > wlen))
  /\ kept' = kept \cup {row}
  /\ wlen' = 0
  /\ IF row = Len(table)
     THEN wpc' = "idle" /\ row' = 0 /\ page' \in {"none", "open"}
     ELSE wpc' = "item" /\ row' = row + 1 /\ UNCHANGED page
  /\ UNCHANGED <<table, nvs, device, form, own, bpc, trow, tlen, garbage, history>>

-----------------------------------------------------------------------------
(* W: config_post_handler, for the observed page or another *)

\* The values are those held by the page, or sent by another client as they are.
WReceive(values, observed) ==
  /\ on /\ wpc = "idle" /\ wpc' = "set" /\ row' = 1
  /\ own' = observed
  /\ form' = (IF observed THEN [r \in Rows |-> Posted(table[r], values[r])] ELSE values)
  /\ observed => page = "open"
       /\ \A r \in Rows : values[r] = CONFIG_VALUE_UNCHANGED => shown[r] = values[r]
  /\ asked' = Each(NOT_FOUND)
  /\ UNCHANGED <<table, nvs, device, wlen, bpc, tvars, browser, promise, erased>>

\* One call of httpd_req_recv need not return the whole body.  What it does return
\* does not parse, so that no item is found in it.
WReceivePart(observed) ==
  /\ on /\ wpc = "idle" /\ wpc' = "restart"
  /\ observed => page = "open"
  /\ own' = observed
  /\ asked' = Each(NOT_FOUND)
  /\ UNCHANGED <<table, nvs, device, row, wlen, form, bpc, tvars, browser, promise, erased>>

WNextItem ==
  /\ wpc = "set" /\ row' = row + 1
  /\ wpc' = (IF row = Len(table) THEN "restart" ELSE "set")
  /\ UNCHANGED <<table, device, wlen, form, own, bpc, tvars, page, shown>>

WIgnore ==
  /\ wpc = "set" /\ Requested(table[row], form[row]) = NOT_FOUND
  /\ asked' = [asked EXCEPT ![row] = Expected(form[row])]
  /\ WNextItem
  /\ UNCHANGED <<nvs, kept, promise, erased>>

\* config_set_...
WSet ==
  /\ wpc = "set" /\ Requested(table[row], form[row]) # NOT_FOUND
  /\ nvs' = [nvs EXCEPT ![row] = Requested(table[row], form[row])]
  /\ asked' = [asked EXCEPT ![row] = Expected(form[row])]
  /\ promise' = [promise EXCEPT ![row] = NOT_FOUND]
  /\ kept' = kept \ {row} /\ erased' = erased \ {row}
  /\ WNextItem

\* The flash is full: an error is logged.
WSetFails ==
  /\ wpc = "set" /\ Requested(table[row], form[row]) # NOT_FOUND
  /\ WNextItem
  /\ UNCHANGED <<nvs, kept, history>>

\* A mutant of WRestart: the settings are committed, but nothing restarts.
WCommitOnly ==
  /\ wpc = "restart" /\ wpc' = "respond" /\ row' = 0
  /\ form' = Each(ABSENT)
  /\ UNCHANGED <<table, nvs, device, wlen, own, bpc, tvars, browser, history>>

\* config_commit, config_restart.
WRestart ==
  /\ wpc = "restart" /\ wpc' = "respond" /\ row' = 0
  /\ restarting' = TRUE
  /\ form' = Each(ABSENT)
  /\ UNCHANGED <<table, nvs, on, wlen, own, bpc, tvars, browser, history>>

\* The answer is always "success"; the page waits for the restart and is loaded again.
WRespond ==
  /\ wpc = "respond" /\ wpc' = "idle"
  /\ page' = (IF own THEN "none" ELSE page) /\ own' = FALSE
  /\ promise' = [r \in Rows |-> IF asked[r] = NOT_FOUND THEN promise[r] ELSE asked[r]]
  /\ asked' = Each(NOT_FOUND)
  /\ UNCHANGED <<table, nvs, device, row, wlen, form, bpc, tvars, shown, kept, erased>>

Submit ==
  \E observed \in BOOLEAN :
    \/ WReceivePart(observed)
    \/ \E values \in [Rows -> ABSENT .. 3] :
         /\ \A r \in Rows : values[r] \in Fields(table[r])
         /\ WReceive(values, observed)

WNext == WMeasure \/ WShow \/ WIgnore \/ WSet \/ WSetFails \/ WRestart \/ WRespond
TNext == TRead \/ \E r \in Rows : TMeasure(r)

Next ==
  \/ Boot \/ BootErased \/ PowerLoss \/ RRestart
  \/ BErase \/ BRestart
  \/ TNext
  \/ WGet \/ Submit \/ WNext

Spec ==
  /\ Init /\ [][Next]_vars
  /\ WF_vars(WNext) /\ WF_vars(RRestart) /\ WF_vars(BRestart) /\ WF_vars(Boot)

-----------------------------------------------------------------------------
(* Properties *)

\* What is read where `wanted' was acknowledged: it, or one of two other values, which
\* AcknowledgedIsDurable explains.
ReadsAs(r, wanted) ==
  \/ Seen(table[r], config_get(r)) = wanted
  \/ table[r] = "ssid" /\ wanted = 0 /\ config_get(r) = MaxText
  \/ table[r] \in Numbers /\ wanted >= NumberRange /\ config_get(r) = wanted % NumberRange

\* The default, or the name that wifi_init has given since.
ReadsErased(r) ==
  config_get(r) = Default[table[r]] \/ (table[r] = "ssid" /\ config_get(r) = MaxText)

\* What a form asked for and was told to have succeeded (config_post_handler) is what
\* the program reads from then on, through restarts and power losses at any point of a
\* later form, until that item is written again.  The exceptions, in all of which the
\* sender was or will be told "success":
\*  - items erased by the reset button or by a boot that erases the NVS, be it after
\*    the answer or while the form is handled: of them the default is read;
\*  - a number too large for its item, of which what fits is read (config.c:349-372);
\*  - a nameless access point that is active, which wifi_init names;
\*  - the items that uart.c reads with another type;
\*  - a body received in part and an item that the flash had no room for, which
\*    change nothing.
AcknowledgedIsDurable ==
  \A r \in Rows :
    table[r] # "misread" =>
      IF r \in erased THEN ReadsErased(r)
      ELSE promise[r] # NOT_FOUND => ReadsAs(r, promise[r])

\* A text whose two reads (config.c:571 and 574) met a change in between leaves an
\* interface with an uninitialized name, or writes past a buffer; whenever that is
\* so, the restart that ends it is under way.
BadReadsEndInRestart ==
  garbage \/ overrun =>
    restarting \/ bpc = "erased" \/ wpc \in {"set", "restart"}

\* A page that is submitted does not change the items that its user did not edit, or
\* that it does not send, and that nobody else has changed meanwhile: hidden secrets
\* above all (web_server.c:491 and 533).  Two exceptions: the default color of most
\* interfaces is black with an alpha and comes back as no color (web_server.c:545-553);
\* a connect message with a line break comes back with two characters for it.
UneditedIsKept ==
  [][\A r \in Rows :
       /\ own /\ wpc = "set" /\ row = r /\ row' = r + 1
       /\ r \in kept
       /\ \/ form[r] = ABSENT
          \/ /\ form[r] = Posted(table[r], shown[r])
             /\ ~(table[r] = "black" /\ config_get(r) = Default["black"])
             /\ ~(table[r] = "message" /\ config_get(r) = 1)
       => config_get(r)' = config_get(r)]_vars

\* The device restarts after each form it has answered and after each reset.
RestartsAfterSubmit == (wpc = "respond" \/ bpc = "erased") ~> ~on
=============================================================================
