--------------------------- MODULE Settings_proof ---------------------------
(* Theorems about Settings, for every table of items.                        *)
EXTENDS Settings, TLAPS

-----------------------------------------------------------------------------
(* The inductive invariant *)

\* What an item of this kind can be set to.
Values(k) == IF k \in Texts THEN 0 .. MaxText ELSE IF k \in Colors THEN {0, 3} ELSE 0 .. 1

Shape ==
  /\ \A r \in Rows : nvs[r] \in Values(table[r]) \cup {NOT_FOUND}
  /\ \A r \in Rows : form[r] \in Fields(table[r])
  /\ wpc \in {"item", "value", "set"} => row \in Rows
  /\ wpc = "value" => table[row] \in Texts
  /\ tlen > 0 => trow \in Rows /\ table[trow] \in Texts

OffIsClean ==
  ~on => wpc = "idle" /\ bpc = "idle" /\ tlen = 0 /\ asked = Each(NOT_FOUND)

\* What is read of item r is what was wanted of it, if anything was.
Meets(r, wanted) == wanted # NOT_FOUND /\ table[r] # "misread" => ReadsAs(r, wanted)

ErasedMet  == \A r \in erased : table[r] # "misread" => ReadsErased(r)
PromiseMet == \A r \in Rows \ erased : Meets(r, promise[r])
AskedMet   == \A r \in Rows \ erased : Meets(r, asked[r])

\* A form is being stored, or a restart is under way.
Changing == restarting \/ bpc = "erased" \/ wpc \in {"set", "restart"}

\* A length that was read is right unless the settings are changing.
LengthsRight ==
  /\ tlen > 0 => tlen = Size(config_get(trow)) \/ Changing
  /\ wpc = "value" => wlen = Size(config_get(row)) \/ Changing
  /\ garbage \/ overrun => Changing

KeptAsShown == \A r \in kept : shown[r] = Shown(table[r], config_get_primitive(r))

IInv == /\ TypeOK /\ Shape /\ OffIsClean
        /\ ErasedMet /\ PromiseMet /\ AskedMet
        /\ LengthsRight /\ KeptAsShown

-----------------------------------------------------------------------------
(* The values *)

LEMMA KindsAre ==
  /\ Kinds = {"text", "secret", "message", "ssid", "black", "blue", "number", "pin", "misread"}
  /\ \A k \in Kinds : Default[k] \in Values(k) \/ (k = "black" /\ Default[k] = 1)
  /\ \A k \in Kinds : Default[k] \in 0 .. 3
  /\ Default["black"] = 1 /\ Default["blue"] = 3
  /\ Default["secret"] = 0 /\ Default["ssid"] = 0 /\ Default["text"] = 0 /\ Default["message"] = 1
BY DEF Kinds, Default, Values, Texts, Colors, MaxText

\* The rows of a table.
LEMMA RowsAre ==
  TypeOK => /\ Len(table) \in Nat /\ Len(table) > 0 /\ Rows = 1 .. Len(table)
            /\ \A r \in Rows : table[r] \in Kinds
BY TablesAssumption DEF TypeOK, Rows

\* What is sent of a field's value is one that the field can hold.
LEMMA PostedIsField ==
  ASSUME NEW k \in Kinds, NEW v \in Fields(k)
  PROVE  Posted(k, v) \in Fields(k)
BY DEF Posted, Fields, Texts, MaxText

\* What a form makes the handler set is a value of the item.
LEMMA RequestedIsValue ==
  ASSUME NEW k \in Kinds, NEW field \in Fields(k)
  PROVE  /\ Requested(k, field) # NOT_FOUND => Requested(k, field) \in Values(k)
         /\ Requested(k, field) # NOT_FOUND =>
              /\ Expected(field) = field /\ field \in 0 .. 3
              /\ \/ Seen(k, Requested(k, field)) = field
                 \/ /\ k \in Numbers /\ field >= NumberRange
                    /\ Requested(k, field) = field % NumberRange
         /\ Requested(k, field) = NOT_FOUND => Expected(field) = NOT_FOUND
<1>. USE DEF ABSENT, BLANK, CONFIG_VALUE_UNCHANGED, NOT_FOUND
<1>1. CASE k \in Colors
  <2>1. field \in {ABSENT, 0, 1} /\ k \notin Numbers
    BY <1>1 DEF Fields, Texts, Colors, Secrets, Numbers
  <2>2. Default[k] \in {1, 3}
    BY <1>1, KindsAre DEF Colors
  <2>3. Default[k] % 2 = 1 /\ 0 \div 2 = 0 /\ 3 \div 2 = 1
    BY <2>2
  <2>4. CASE field = ABSENT
    <3>1. Requested(k, field) = NOT_FOUND
      BY <2>4 DEF Requested
    <3>. QED
      BY <2>4, <3>1 DEF Expected
  <2>5. CASE field = 0
    <3>1. Requested(k, field) = 0
      BY <1>1, <2>1, <2>5 DEF Requested
    <3>. QED
      BY <1>1, <2>3, <2>5, <3>1 DEF Expected, Seen, Values, Texts, Colors
  <2>6. CASE field = 1
    <3>1. Requested(k, field) = 3
      BY <1>1, <2>1, <2>3, <2>6 DEF Requested
    <3>. QED
      BY <1>1, <2>3, <2>6, <3>1 DEF Expected, Seen, Values, Texts, Colors
  <2>. QED
    BY <2>1, <2>4, <2>5, <2>6
<1>2. CASE field \in {ABSENT, BLANK, CONFIG_VALUE_UNCHANGED}
  <2>1. Requested(k, field) = NOT_FOUND
    BY <1>2 DEF Requested
  <2>. QED
    BY <1>2, <2>1 DEF Expected
<1>3. CASE k \in Texts /\ field \notin {ABSENT, BLANK, CONFIG_VALUE_UNCHANGED}
  <2>1. field \in 0 .. 2 /\ k \notin Numbers \cup Colors /\ field \in Values(k)
    BY <1>3 DEF Fields, Values, Texts, Colors, Numbers, MaxText
  <2>2. Requested(k, field) = field
    BY <2>1 DEF Requested
  <2>. QED
    BY <2>1, <2>2 DEF Expected, Seen
<1>4. CASE k \in Numbers /\ field \notin {ABSENT, BLANK, CONFIG_VALUE_UNCHANGED}
  <2>1. field \in 0 .. 3 /\ k \notin Texts \cup Colors
    BY <1>4 DEF Fields, Texts, Colors, Numbers, NumberRange
  <2>2. Requested(k, field) = field % 2 /\ field % 2 \in 0 .. 1
    BY <1>4, <2>1 DEF Requested, NumberRange
  <2>3. Values(k) = 0 .. 1
    BY <2>1 DEF Values
  <2>4. field < 2 => field % 2 = field
    BY <2>1
  <2>. QED
    BY <1>4, <2>1, <2>2, <2>3, <2>4 DEF Expected, Seen, NumberRange
<1>. QED
  BY <1>1, <1>2, <1>3, <1>4 DEF Kinds, Default, Texts, Colors, Numbers

\* The getters, by the type of the item.
LEMMA ValuesRead ==
  ASSUME TypeOK, Shape, NEW r \in Rows
  PROVE  /\ config_get_primitive(r) \in 0 .. 3 /\ config_get(r) \in 0 .. 3
         /\ table[r] \in Texts => config_get_primitive(r) \in 0 .. MaxText
                               /\ config_get(r) = config_get_primitive(r)
         /\ Shown(table[r], config_get_primitive(r)) \in -4 .. 3
<1>1. table[r] \in Kinds /\ nvs[r] \in Values(table[r]) \cup {NOT_FOUND}
  BY RowsAre DEF Shape
<1>2. Values(table[r]) \subseteq 0 .. 3 /\ Default[table[r]] \in 0 .. 3
  BY <1>1, KindsAre DEF Values, MaxText
<1>3. config_get_primitive(r) \in 0 .. 3
  BY <1>1, <1>2 DEF config_get_primitive
<1>4. config_get(r) \in 0 .. 3
  BY <1>2, <1>3 DEF config_get
<1>5. ASSUME table[r] \in Texts
      PROVE  config_get_primitive(r) \in 0 .. MaxText /\ config_get(r) = config_get_primitive(r)
  <2>1. Values(table[r]) = 0 .. MaxText /\ Default[table[r]] \in 0 .. 1 /\ table[r] # "misread"
    BY <1>1, <1>5, KindsAre DEF Values, Texts
  <2>. QED
    BY <1>1, <2>1 DEF config_get, config_get_primitive, MaxText
<1>6. Shown(table[r], config_get_primitive(r)) \in -4 .. 3
  BY <1>3 DEF Shown, Seen, CONFIG_VALUE_UNCHANGED
<1>. QED
  BY <1>3, <1>4, <1>5, <1>6

\* What is read of an item that is not written stays.
LEMMA Unwritten ==
  ASSUME NEW r \in Rows, table' = table, nvs'[r] = nvs[r]
  PROVE  /\ config_get(r)' = config_get(r) /\ config_get_primitive(r)' = config_get_primitive(r)
         /\ ReadsErased(r)' = ReadsErased(r)
         /\ \A v : Meets(r, v) => Meets(r, v)'
BY DEF config_get, config_get_primitive, Meets, ReadsAs, ReadsErased

-----------------------------------------------------------------------------
(* The device starts and stops *)

LEMMA StopStep == IInv /\ Stop => IInv'
<1> SUFFICES ASSUME IInv, Stop PROVE IInv'
  OBVIOUS
<1>. USE RowsAre DEF IInv
<1>1. table' = table /\ Rows' = Rows /\ nvs' = nvs
  BY DEF Stop, Rows
<1>2. TypeOK'
  <2>1. form' \in [Rows -> -4 .. 3] /\ asked' \in [Rows -> -1 .. 3]
    BY DEF Stop, Each, ABSENT, NOT_FOUND
  <2>2. page' \in {"none", "loading", "open"}
    BY DEF Stop, TypeOK
  <2>3. /\ row' \in 0 .. Len(table) + 1 /\ wlen' \in 0 .. MaxText + 1
        /\ trow' \in 0 .. Len(table) /\ tlen' \in 0 .. MaxText + 1
    BY DEF Stop, MaxText
  <2>4. shown' = shown /\ kept' = kept /\ promise' = promise /\ erased' = erased
    BY DEF Stop
  <2>5. wpc' = "idle" /\ bpc' = "idle"
    BY DEF Stop
  <2>6. {on', restarting', own', garbage', overrun'} \subseteq BOOLEAN
    BY DEF Stop
  <2>. QED
    BY <1>1, <2>1, <2>2, <2>3, <2>4, <2>5, <2>6 DEF TypeOK
<1>3. Shape'
  BY <1>1 DEF Shape, Stop, Each, Fields
<1>4. OffIsClean'
  BY <1>1 DEF OffIsClean, Stop, Each
<1>5. PromiseMet' /\ ErasedMet'
  BY <1>1, Unwritten DEF PromiseMet, ErasedMet, Stop, TypeOK
<1>6. AskedMet'
  BY <1>1 DEF AskedMet, Meets, Stop, Each
<1>7. LengthsRight'
  BY DEF LengthsRight, Stop
<1>8. KeptAsShown'
  BY <1>1, Unwritten DEF KeptAsShown, Stop, TypeOK
<1>. QED
  BY <1>2, <1>3, <1>4, <1>5, <1>6, <1>7, <1>8

LEMMA StartStep == IInv /\ (Boot \/ BootErased) => IInv'
<1> SUFFICES ASSUME IInv, Boot \/ BootErased PROVE IInv'
  OBVIOUS
<1>. USE RowsAre DEF IInv
<1>1. PICK values \in {nvs, Each(NOT_FOUND)} :
        /\ Start(values)
        /\ (values = nvs /\ erased' = erased) \/ (values = Each(NOT_FOUND) /\ erased' = Rows)
  BY DEF Boot, BootErased
<1>2. table' = table /\ Rows' = Rows
  BY <1>1 DEF Start, Rows
<1>3. \A r \in Rows :
        /\ \/ nvs'[r] = values[r]
           \/ table[r] = "ssid" /\ values[r] \in {0, NOT_FOUND} /\ nvs'[r] = MaxText
        /\ nvs'[r] \in Values(table[r]) \cup {NOT_FOUND}
  <2>1. \A r \in Rows : values[r] \in Values(table[r]) \cup {NOT_FOUND}
    BY <1>1 DEF Shape, Each
  <2>. QED
    BY <1>1, <2>1 DEF Start, Named, Values, Texts, MaxText
<1>4. nvs' \in [Rows -> Stored \cup {NOT_FOUND}]
  <2>1. values \in [Rows -> Stored \cup {NOT_FOUND}]
    BY <1>1 DEF TypeOK, Each
  <2>2. Named(values) \in [Rows -> Stored \cup {NOT_FOUND}]
    BY <2>1 DEF Named, MaxText, Stored
  <2>. QED
    BY <1>1, <2>1, <2>2 DEF Start
<1>5. TypeOK'
  BY <1>1, <1>2, <1>4 DEF TypeOK, Start, wvars, tvars, Each, NOT_FOUND
<1>6. Shape'
  BY <1>1, <1>2, <1>3 DEF Shape, Start, wvars, tvars
<1>7. OffIsClean'
  BY <1>1 DEF OffIsClean, Start
<1>8. ASSUME NEW r \in Rows, values = nvs
      PROVE  /\ \A v : Meets(r, v) => Meets(r, v)'
             /\ table[r] # "misread" /\ ReadsErased(r) => ReadsErased(r)'
  <2>1. CASE nvs'[r] = nvs[r]
    BY <1>1, <1>2, <2>1, Unwritten
  <2>2. CASE table[r] = "ssid" /\ nvs[r] \in {0, NOT_FOUND} /\ nvs'[r] = MaxText
    <3>1. config_get(r) = 0 /\ config_get(r)' = MaxText /\ table'[r] = "ssid"
      BY <1>2, <2>2, KindsAre DEF config_get, config_get_primitive, NOT_FOUND, MaxText
    <3>2. Seen(table[r], config_get(r)) = 0 /\ table[r] \notin Numbers
      BY <2>2, <3>1 DEF Seen, Colors, Numbers
    <3>3. \A v : Meets(r, v) => Meets(r, v)'
      BY <2>2, <3>1, <3>2 DEF Meets, ReadsAs, MaxText
    <3>4. ReadsErased(r)'
      BY <3>1 DEF ReadsErased
    <3>. QED
      BY <3>3, <3>4
  <2>. QED
    BY <1>3, <1>8, <2>1, <2>2
<1>9. PromiseMet' /\ ErasedMet'
  <2>1. CASE values = nvs /\ erased' = erased
    <3>1. promise' = promise /\ erased \subseteq Rows
      BY <1>1 DEF Start, TypeOK
    <3>. QED
      BY <1>2, <1>8, <2>1, <3>1 DEF PromiseMet, ErasedMet
  <2>2. CASE values = Each(NOT_FOUND) /\ erased' = Rows
    <3>1. ASSUME NEW r \in Rows, table[r] # "misread" PROVE ReadsErased(r)'
      <4>1. nvs'[r] = NOT_FOUND \/ (table[r] = "ssid" /\ nvs'[r] = MaxText)
        BY <1>3, <2>2 DEF Each
      <4>. QED
        BY <1>2, <3>1, <4>1 DEF ReadsErased, config_get, config_get_primitive, MaxText, NOT_FOUND
    <3>. QED
      BY <1>2, <2>2, <3>1 DEF PromiseMet, ErasedMet
  <2>. QED
    BY <1>1, <2>1, <2>2
<1>10. AskedMet'
  BY <1>1, <1>2 DEF AskedMet, Meets, Start, OffIsClean, Each
<1>11. LengthsRight'
  BY <1>1 DEF LengthsRight, OffIsClean, Start, wvars, tvars, Changing
<1>12. KeptAsShown'
  BY <1>1, <1>2, Unwritten DEF KeptAsShown, Start, TypeOK
<1>. QED
  BY <1>5, <1>6, <1>7, <1>9, <1>10, <1>11, <1>12

-----------------------------------------------------------------------------
(* The reset button *)

LEMMA EraseStep == IInv /\ BErase => IInv'
<1> SUFFICES ASSUME IInv, BErase PROVE IInv'
  OBVIOUS
<1>. USE RowsAre DEF IInv
<1>1. table' = table /\ Rows' = Rows /\ \A r \in Rows : nvs'[r] = NOT_FOUND
  BY DEF BErase, Rows, Each
<1>3. TypeOK'
  <2>1. nvs' \in [Rows -> Stored \cup {NOT_FOUND}]
    BY DEF BErase, Each
  <2>2. UNCHANGED <<table, device, wvars, tvars, page, shown, asked, promise>>
    BY DEF BErase
  <2>3. bpc' \in {"idle", "erased"} /\ kept' \subseteq Rows /\ erased' \subseteq Rows
    BY DEF BErase
  <2>. QED
    BY <1>1, <2>1, <2>2, <2>3 DEF TypeOK, device, wvars, tvars
<1>4. Shape'
  BY <1>1 DEF Shape, BErase, wvars, tvars
<1>5. OffIsClean'
  BY DEF OffIsClean, BErase, device
<1>6. ErasedMet'
  BY <1>1 DEF ErasedMet, ReadsErased, config_get, config_get_primitive, BErase
<1>7. PromiseMet' /\ AskedMet'
  BY <1>1 DEF PromiseMet, AskedMet, BErase
<1>8. LengthsRight'
  BY DEF LengthsRight, BErase, Changing
<1>9. KeptAsShown'
  BY DEF KeptAsShown, BErase
<1>. QED
  BY <1>3, <1>4, <1>5, <1>6, <1>7, <1>8, <1>9

-----------------------------------------------------------------------------
(* The reader of a text *)

LEMMA SizeOf ==
  ASSUME NEW text \in 0 .. MaxText
  PROVE  Size(text) \in 1 .. MaxText + 1
BY DEF Size, MaxText

LEMMA ReadStep == IInv /\ TNext => IInv'
<1> SUFFICES ASSUME IInv, TNext PROVE IInv'
  OBVIOUS
<1>. USE RowsAre DEF IInv
<1>1. UNCHANGED <<table, nvs, device, wvars, bpc, browser, history>> /\ Rows' = Rows
  BY DEF TNext, TRead, TMeasure, Rows
<1>2. \A r \in Rows : config_get(r)' = config_get(r) /\ config_get_primitive(r)' = config_get_primitive(r)
  BY <1>1 DEF config_get, config_get_primitive
<1>3. ErasedMet' /\ PromiseMet' /\ AskedMet'
  BY <1>1, Unwritten DEF ErasedMet, PromiseMet, AskedMet, history, TypeOK
<1>4. KeptAsShown'
  BY <1>1, <1>2 DEF KeptAsShown, browser, TypeOK
<1>5. Changing' = Changing
  BY <1>1 DEF Changing, device, wvars
<1>6. wpc = "value" => config_get(row)' = config_get(row)
  BY <1>1, <1>2 DEF Shape, wvars
<1>7. CASE TRead
  <2>1. trow \in Rows /\ table[trow] \in Texts /\ (tlen = Size(config_get(trow)) \/ Changing)
    BY <1>7 DEF TRead, Shape, LengthsRight
  <2>2. config_get(trow) \in 0 .. MaxText /\ config_get(trow) = config_get_primitive(trow)
    BY <2>1, ValuesRead
  <2>3. garbage' => Changing
    <3>1. nvs[trow] # NOT_FOUND => nvs[trow] = config_get(trow)
      BY <2>2 DEF config_get_primitive
    <3>2. garbage' => Size(config_get(trow)) > tlen
      BY <1>7, <3>1 DEF TRead
    <3>3. Size(config_get(trow)) \in Int
      BY <2>2, SizeOf
    <3>. QED
      BY <2>1, <3>2, <3>3
  <2>4. overrun' => Changing
    <3>1. CASE overrun
      BY <3>1 DEF LengthsRight
    <3>2. CASE Size(config_get(trow)) > tlen
      BY <2>1, <2>2, <3>2, SizeOf
    <3>. QED
      BY <1>7, <3>1, <3>2 DEF TRead, TypeOK
  <2>5. {garbage', overrun'} \subseteq BOOLEAN
    BY <1>7 DEF TRead, TypeOK
  <2>6. tlen' = 0 /\ trow' = 0
    BY <1>7 DEF TRead
  <2>7. TypeOK'
    BY <1>1, <2>5, <2>6 DEF TypeOK, MaxText, device, wvars, browser, history
  <2>8. Shape' /\ OffIsClean'
    BY <1>1, <2>6 DEF Shape, OffIsClean, device, wvars, history, Each
  <2>9. LengthsRight'
    BY <1>1, <1>5, <1>6, <2>3, <2>4, <2>6 DEF LengthsRight, wvars
  <2>. QED
    BY <1>3, <1>4, <2>7, <2>8, <2>9
<1>8. ASSUME NEW r \in Rows, TMeasure(r) PROVE IInv'
  <2>1. config_get(r) \in 0 .. MaxText /\ table[r] \in Texts
    BY <1>8, ValuesRead DEF TMeasure
  <2>2. Size(config_get(r)) \in 1 .. MaxText + 1
    BY <2>1, SizeOf
  <2>3. trow' = r /\ tlen' = Size(config_get(r)) /\ garbage' = FALSE /\ overrun' = overrun /\ on
    BY <1>8 DEF TMeasure
  <2>4. TypeOK'
    <3>1. trow' \in 0 .. Len(table) /\ tlen' \in 0 .. MaxText + 1
      BY <2>2, <2>3 DEF MaxText
    <3>2. garbage' \in BOOLEAN /\ overrun' \in BOOLEAN
      BY <2>3 DEF TypeOK
    <3>. QED
      BY <1>1, <3>1, <3>2 DEF TypeOK, device, wvars, browser, history
  <2>5. Shape' /\ OffIsClean'
    BY <1>1, <2>1, <2>3 DEF Shape, OffIsClean, device, wvars, history
  <2>6. config_get(trow)' = config_get(r)
    BY <1>2, <2>3
  <2>7. LengthsRight'
    BY <1>1, <1>5, <1>6, <2>3, <2>6 DEF LengthsRight, wvars, Size
  <2>. QED
    BY <1>3, <1>4, <2>4, <2>5, <2>7
<1>. QED
  BY <1>7, <1>8 DEF TNext

-----------------------------------------------------------------------------
(* The page is shown *)

\* What an action that writes no setting preserves.
LEMMA NothingWritten ==
  ASSUME IInv, table' = table, nvs' = nvs
  PROVE  /\ Rows' = Rows
         /\ \A r \in Rows : /\ config_get(r)' = config_get(r)
                           /\ config_get_primitive(r)' = config_get_primitive(r)
                           /\ \A v : Meets(r, v) => Meets(r, v)'
         /\ erased' = erased => ErasedMet'
         /\ history' = history => ErasedMet' /\ PromiseMet' /\ AskedMet'
         /\ browser' = browser => KeptAsShown'
<1>1. Rows' = Rows
  BY DEF Rows
<1>2. \A r \in Rows : /\ config_get(r)' = config_get(r)
                     /\ config_get_primitive(r)' = config_get_primitive(r)
                     /\ \A v : Meets(r, v) => Meets(r, v)'
  BY Unwritten
<1>3. erased' = erased => ErasedMet'
  BY <1>1, Unwritten DEF IInv, TypeOK, ErasedMet
<1>4. history' = history => ErasedMet' /\ PromiseMet' /\ AskedMet'
  BY <1>1, <1>2, <1>3 DEF IInv, PromiseMet, AskedMet, history
<1>5. browser' = browser => KeptAsShown'
  BY <1>1, <1>2 DEF IInv, TypeOK, KeptAsShown, browser
<1>. QED
  BY <1>1, <1>2, <1>3, <1>4, <1>5

LEMMA GetStep == IInv /\ WGet => IInv'
<1> SUFFICES ASSUME IInv, WGet PROVE IInv'
  OBVIOUS
<1>. USE RowsAre DEF IInv
<1>1. /\ UNCHANGED <<table, nvs, device, wlen, form, own, bpc, tvars, history>>
      /\ on /\ wpc = "idle" /\ wpc' = "item" /\ row' = 1
      /\ page' = "loading" /\ shown' = Each(ABSENT) /\ kept' = {}
  BY DEF WGet
<1>2. Rows' = Rows /\ ErasedMet' /\ PromiseMet' /\ AskedMet'
  BY <1>1, NothingWritten
<1>3. TypeOK'
  <2>1. shown' \in [Rows -> -4 .. 3] /\ kept' \subseteq Rows /\ row' \in 0 .. Len(table) + 1
    BY <1>1 DEF Each, ABSENT
  <2>. QED
    BY <1>1, <1>2, <2>1 DEF TypeOK, device, tvars, history
<1>4. Shape'
  BY <1>1, <1>2 DEF Shape, tvars
<1>5. OffIsClean' /\ KeptAsShown'
  BY <1>1 DEF OffIsClean, KeptAsShown, device
<1>6. tlen > 0 => config_get(trow)' = config_get(trow)
  BY <1>1, NothingWritten DEF Shape, tvars
<1>7. LengthsRight'
  BY <1>1, <1>6 DEF LengthsRight, Changing, device, tvars
<1>. QED
  BY <1>2, <1>3, <1>4, <1>5, <1>7

LEMMA MeasureStep == IInv /\ WMeasure => IInv'
<1> SUFFICES ASSUME IInv, WMeasure PROVE IInv'
  OBVIOUS
<1>. USE RowsAre DEF IInv
<1>1. /\ UNCHANGED <<table, nvs, device, row, form, own, bpc, tvars, browser, history>>
      /\ wpc = "item" /\ wpc' = "value" /\ table[row] \in Texts /\ wlen' = Size(config_get(row))
  BY DEF WMeasure
<1>2. Rows' = Rows /\ ErasedMet' /\ PromiseMet' /\ AskedMet' /\ KeptAsShown'
  BY <1>1, NothingWritten
<1>3. row \in Rows /\ config_get(row) \in 0 .. MaxText
  BY <1>1, ValuesRead DEF Shape
<1>4. TypeOK'
  <2>1. wlen' \in 0 .. MaxText + 1
    BY <1>1, <1>3, SizeOf DEF MaxText
  <2>. QED
    BY <1>1, <1>2, <2>1 DEF TypeOK, device, tvars, browser, history
<1>5. Shape' /\ OffIsClean'
  BY <1>1, <1>2, <1>3 DEF Shape, OffIsClean, device, tvars, history
<1>6. (tlen > 0 => config_get(trow)' = config_get(trow)) /\ config_get(row)' = config_get(row)
  BY <1>1, <1>3, NothingWritten DEF Shape, tvars
<1>7. LengthsRight'
  BY <1>1, <1>6 DEF LengthsRight, Changing, device, tvars
<1>. QED
  BY <1>2, <1>4, <1>5, <1>7

LEMMA ShowStep == IInv /\ WShow => IInv'
<1> SUFFICES ASSUME IInv, WShow PROVE IInv'
  OBVIOUS
<1>. USE RowsAre DEF IInv
<1>1. /\ UNCHANGED <<table, nvs, device, form, own, bpc, trow, tlen, garbage, history>>
      /\ wpc \in {"item", "value"} /\ (wpc = "item" => table[row] \notin Texts)
      /\ shown' = [shown EXCEPT ![row] = Shown(table[row], config_get_primitive(row))]
      /\ overrun' = (overrun \/ (table[row] \in Texts /\ Size(config_get_primitive(row)) > wlen))
      /\ kept' = kept \cup {row} /\ wlen' = 0
  BY DEF WShow
<1>2. Rows' = Rows /\ ErasedMet' /\ PromiseMet' /\ AskedMet'
  BY <1>1, NothingWritten
<1>3. row \in Rows
  BY <1>1 DEF Shape
<1>4. /\ wpc' \in {"item", "idle"} /\ row' \in 0 .. Len(table)
      /\ page' \in {"none", "loading", "open"}
      /\ wpc' = "item" => row' \in Rows
  <2>1. page \in {"none", "loading", "open"}
    BY DEF TypeOK
  <2>2. CASE row = Len(table)
    BY <1>3, <2>2 DEF WShow
  <2>3. CASE row # Len(table)
    BY <1>3, <2>1, <2>3 DEF WShow
  <2>. QED
    BY <2>2, <2>3
<1>5. TypeOK'
  <2>1. shown' \in [Rows -> -4 .. 3] /\ kept' \subseteq Rows
    BY <1>1, <1>3, ValuesRead DEF TypeOK
  <2>2. overrun' \in BOOLEAN
    BY <1>1 DEF TypeOK
  <2>. QED
    BY <1>1, <1>2, <1>4, <2>1, <2>2 DEF TypeOK, device, history, MaxText
<1>6. Shape' /\ OffIsClean'
  BY <1>1, <1>2, <1>4 DEF Shape, OffIsClean, device, history
<1>7. overrun' => Changing
  <2>1. CASE overrun
    BY <2>1 DEF LengthsRight
  <2>2. CASE table[row] \in Texts /\ Size(config_get_primitive(row)) > wlen
    <3>1. config_get(row) = config_get_primitive(row) /\ config_get(row) \in 0 .. MaxText
      BY <1>3, <2>2, ValuesRead
    <3>2. wlen # Size(config_get(row))
      BY <2>2, <3>1, SizeOf
    <3>. QED
      BY <1>1, <2>2, <3>2 DEF LengthsRight
  <2>. QED
    BY <1>1, <2>1, <2>2 DEF TypeOK
<1>8. tlen > 0 => config_get(trow)' = config_get(trow)
  BY <1>1, NothingWritten DEF Shape
<1>9. LengthsRight'
  BY <1>1, <1>4, <1>7, <1>8 DEF LengthsRight, Changing, device
<1>10. KeptAsShown'
  BY <1>1, <1>2, <1>3, NothingWritten DEF KeptAsShown, TypeOK
<1>. QED
  BY <1>2, <1>5, <1>6, <1>9, <1>10

-----------------------------------------------------------------------------
(* A form is stored *)

LEMMA SubmitStep == IInv /\ Submit => IInv'
<1> SUFFICES ASSUME IInv, Submit PROVE IInv'
  OBVIOUS
<1>. USE RowsAre DEF IInv
<1>1. /\ UNCHANGED <<table, nvs, device, wlen, bpc, tvars, browser, promise, erased>>
      /\ on /\ wpc = "idle" /\ own' \in BOOLEAN /\ asked' = Each(NOT_FOUND)
      /\ \/ wpc' = "restart" /\ UNCHANGED <<row, form>>
         \/ /\ wpc' = "set" /\ row' = 1 /\ form' = [r \in Rows |-> form'[r]]
            /\ \A r \in Rows : form'[r] \in Fields(table[r])
  BY PostedIsField DEF Submit, WReceive, WReceivePart
<1>2. Rows' = Rows /\ KeptAsShown'
  BY <1>1, NothingWritten
<1>3. form' \in [Rows -> -4 .. 3] /\ row' \in 0 .. Len(table) + 1
  <2>1. \A r \in Rows : Fields(table[r]) \subseteq -4 .. 3
    BY DEF Fields, ABSENT, BLANK, CONFIG_VALUE_UNCHANGED, MaxText, NumberRange
  <2>2. CASE UNCHANGED <<row, form>>
    BY <2>2 DEF TypeOK
  <2>3. CASE row' = 1 /\ form' = [r \in Rows |-> form'[r]]
             /\ \A r \in Rows : form'[r] \in Fields(table[r])
    <3>1. \A r \in Rows : form'[r] \in -4 .. 3
      BY <2>1, <2>3
    <3>2. form' \in [Rows -> -4 .. 3]
      BY <2>3, <3>1
    <3>. QED
      BY <2>3, <3>2
  <2>. QED
    BY <1>1, <2>2, <2>3
<1>4. TypeOK'
  <2>1. asked' \in [Rows -> -1 .. 3]
    BY <1>1 DEF Each, NOT_FOUND
  <2>. QED
    BY <1>1, <1>2, <1>3, <2>1 DEF TypeOK, device, tvars, browser
<1>5. Shape' /\ OffIsClean'
  BY <1>1, <1>2 DEF Shape, OffIsClean, device, tvars
<1>6. ErasedMet' /\ PromiseMet' /\ AskedMet'
  <2>1. AskedMet'
    BY <1>1, <1>2 DEF AskedMet, Meets, Each
  <2>. QED
    BY <1>1, <1>2, <2>1, NothingWritten DEF PromiseMet
<1>7. LengthsRight'
  BY <1>1 DEF LengthsRight, Changing
<1>. QED
  BY <1>2, <1>4, <1>5, <1>6, <1>7

LEMMA IgnoreStep == IInv /\ (WIgnore \/ WSetFails) => IInv'
<1> SUFFICES ASSUME IInv, WIgnore \/ WSetFails PROVE IInv'
  OBVIOUS
<1>. USE RowsAre DEF IInv
<1>1. /\ UNCHANGED <<table, nvs, device, wlen, form, own, bpc, tvars, page, shown, kept, promise,
                    erased>>
      /\ wpc = "set" /\ wpc' \in {"set", "restart"} /\ row' = row + 1
      /\ wpc' = "set" => row # Len(table)
  BY DEF WIgnore, WSetFails, WNextItem, history
<1>2. row \in Rows /\ form[row] \in Fields(table[row]) /\ table[row] \in Kinds
  BY <1>1 DEF Shape
<1>3. asked' = asked \/ asked' = [asked EXCEPT ![row] = NOT_FOUND]
  <2>1. CASE WIgnore
    <3>1. Expected(form[row]) = NOT_FOUND
      BY <1>2, <2>1, RequestedIsValue DEF WIgnore
    <3>. QED
      BY <2>1, <3>1 DEF WIgnore
  <2>2. CASE WSetFails
    BY <2>2 DEF WSetFails, history
  <2>. QED
    BY <2>1, <2>2
<1>4. Rows' = Rows /\ ErasedMet' /\ PromiseMet' /\ KeptAsShown'
  BY <1>1, NothingWritten DEF PromiseMet, browser
<1>5. TypeOK'
  <2>1. asked' \in [Rows -> -1 .. 3]
    <3>1. asked \in [Rows -> -1 .. 3] /\ NOT_FOUND \in -1 .. 3
      BY DEF TypeOK, NOT_FOUND
    <3>. QED
      BY <1>3, <3>1
  <2>2. row' \in 0 .. Len(table) + 1
    BY <1>1, <1>2
  <2>. QED
    BY <1>1, <1>4, <2>1, <2>2 DEF TypeOK, device, tvars
<1>6. Shape' /\ OffIsClean'
  BY <1>1, <1>2, <1>4 DEF Shape, OffIsClean, device, tvars
<1>7. AskedMet'
  <2> SUFFICES ASSUME NEW r \in Rows \ erased PROVE Meets(r, asked[r])'
    BY <1>1, <1>4 DEF AskedMet
  <2>1. asked'[r] = asked[r] \/ asked'[r] = NOT_FOUND
    BY <1>2, <1>3 DEF TypeOK
  <2>2. asked'[r] = asked[r] => Meets(r, asked[r])'
    BY <1>1, NothingWritten DEF AskedMet
  <2>. QED
    BY <2>1, <2>2 DEF Meets
<1>8. LengthsRight'
  BY <1>1 DEF LengthsRight, Changing
<1>. QED
  BY <1>4, <1>5, <1>6, <1>7, <1>8

LEMMA SetStep == IInv /\ WSet => IInv'
<1> SUFFICES ASSUME IInv, WSet PROVE IInv'
  OBVIOUS
<1>. USE RowsAre DEF IInv
<1> DEFINE v == Requested(table[row], form[row])
<1>1. /\ UNCHANGED <<table, device, wlen, form, own, bpc, tvars, page, shown>>
      /\ wpc = "set" /\ wpc' \in {"set", "restart"} /\ row' = row + 1
      /\ wpc' = "set" => row # Len(table)
      /\ v # NOT_FOUND /\ nvs' = [nvs EXCEPT ![row] = v]
      /\ asked' = [asked EXCEPT ![row] = Expected(form[row])]
      /\ promise' = [promise EXCEPT ![row] = NOT_FOUND]
      /\ kept' = kept \ {row} /\ erased' = erased \ {row}
  BY DEF WSet, WNextItem
<1>2. row \in Rows /\ form[row] \in Fields(table[row]) /\ table[row] \in Kinds /\ Rows' = Rows
  BY <1>1 DEF Shape, Rows
<1>3. /\ v \in Values(table[row])
      /\ Expected(form[row]) = form[row] /\ form[row] \in 0 .. 3
      /\ \/ Seen(table[row], v) = form[row]
         \/ table[row] \in Numbers /\ form[row] >= NumberRange /\ v = form[row] % NumberRange
  BY <1>1, <1>2, RequestedIsValue
<1>4. v \in Stored
  BY <1>3 DEF Values, Stored, MaxText
<1> HIDE DEF v
<1>5. nvs'[row] = v /\ \A r \in Rows \ {row} : nvs'[r] = nvs[r]
  BY <1>1, <1>2 DEF TypeOK
<1>6. TypeOK'
  <2>1. nvs' \in [Rows -> Stored \cup {NOT_FOUND}]
    BY <1>1, <1>2, <1>4 DEF TypeOK
  <2>2. asked' \in [Rows -> -1 .. 3]
    BY <1>1, <1>2, <1>3 DEF TypeOK
  <2>3. promise' \in [Rows -> -1 .. 3]
    BY <1>1, <1>2 DEF TypeOK, NOT_FOUND
  <2>4. row' \in 0 .. Len(table) + 1
    BY <1>1, <1>2
  <2>5. kept' \subseteq Rows /\ erased' \subseteq Rows
    BY <1>1 DEF TypeOK
  <2>. QED
    BY <1>1, <1>2, <2>1, <2>2, <2>3, <2>4, <2>5 DEF TypeOK, device, tvars
<1>7. Shape' /\ OffIsClean'
  BY <1>1, <1>2, <1>3, <1>5 DEF Shape, OffIsClean, device, tvars
<1>8. AskedMet'
  <2> SUFFICES ASSUME NEW r \in Rows, r \notin erased' PROVE Meets(r, asked[r])'
    BY <1>2 DEF AskedMet
  <2>1. CASE r # row
    <3>1. asked'[r] = asked[r] /\ nvs'[r] = nvs[r] /\ r \notin erased
      BY <1>1, <1>2, <1>5, <2>1 DEF TypeOK
    <3>2. Meets(r, asked[r])
      BY <3>1 DEF AskedMet
    <3>. QED
      BY <1>1, <3>1, <3>2, Unwritten
  <2>2. CASE r = row
    <3>1. asked'[r] = form[row]
      BY <1>1, <1>2, <1>3, <2>2 DEF TypeOK
    <3>2. table[r] # "misread" => config_get(r)' = v
      BY <1>1, <1>2, <1>5, <2>2 DEF config_get, config_get_primitive
    <3>. QED
      BY <1>1, <1>2, <1>3, <2>2, <3>1, <3>2 DEF Meets, ReadsAs
  <2>. QED
    BY <2>1, <2>2
<1>9. PromiseMet'
  <2> SUFFICES ASSUME NEW r \in Rows, r \notin erased' PROVE Meets(r, promise[r])'
    BY <1>2 DEF PromiseMet
  <2>1. CASE r # row
    <3>1. promise'[r] = promise[r] /\ nvs'[r] = nvs[r] /\ r \notin erased
      BY <1>1, <1>2, <1>5, <2>1 DEF TypeOK
    <3>2. Meets(r, promise[r])
      BY <3>1 DEF PromiseMet
    <3>. QED
      BY <1>1, <3>1, <3>2, Unwritten
  <2>2. CASE r = row
    BY <1>1, <1>2, <2>2 DEF Meets, TypeOK
  <2>. QED
    BY <2>1, <2>2
<1>10. LengthsRight'
  BY <1>1 DEF LengthsRight, Changing
<1>11. KeptAsShown'
  BY <1>1, <1>5, Unwritten DEF KeptAsShown, TypeOK
<1>12. ErasedMet'
  BY <1>1, <1>5, Unwritten DEF ErasedMet, TypeOK
<1>. QED
  BY <1>6, <1>7, <1>8, <1>9, <1>10, <1>11, <1>12

LEMMA RestartStep == IInv /\ WRestart => IInv'
<1> SUFFICES ASSUME IInv, WRestart PROVE IInv'
  OBVIOUS
<1>. USE RowsAre DEF IInv
<1>1. /\ UNCHANGED <<table, nvs, on, wlen, own, bpc, tvars, browser, history>>
      /\ wpc = "restart" /\ wpc' = "respond" /\ row' = 0
      /\ restarting' = TRUE /\ form' = Each(ABSENT)
  BY DEF WRestart
<1>2. Rows' = Rows /\ ErasedMet' /\ PromiseMet' /\ AskedMet' /\ KeptAsShown'
  BY <1>1, NothingWritten
<1>3. TypeOK'
  <2>1. form' \in [Rows -> -4 .. 3] /\ row' \in 0 .. Len(table) + 1 /\ restarting' \in BOOLEAN
    BY <1>1 DEF Each, ABSENT
  <2>. QED
    BY <1>1, <1>2, <2>1 DEF TypeOK, tvars, browser, history
<1>4. Shape' /\ OffIsClean'
  BY <1>1, <1>2 DEF Shape, OffIsClean, tvars, Each, Fields
<1>5. LengthsRight'
  BY <1>1 DEF LengthsRight, Changing
<1>. QED
  BY <1>2, <1>3, <1>4, <1>5

LEMMA RespondStep == IInv /\ WRespond => IInv'
<1> SUFFICES ASSUME IInv, WRespond PROVE IInv'
  OBVIOUS
<1>. USE RowsAre DEF IInv
<1>1. /\ UNCHANGED <<table, nvs, device, row, wlen, form, bpc, tvars, shown, kept, erased>>
      /\ wpc = "respond" /\ wpc' = "idle" /\ own' = FALSE
      /\ page' \in {"none", page} /\ asked' = Each(NOT_FOUND)
      /\ promise' = [r \in Rows |-> IF asked[r] = NOT_FOUND THEN promise[r] ELSE asked[r]]
  BY DEF WRespond
<1>2. Rows' = Rows
  BY <1>1, NothingWritten
<1>3. TypeOK'
  <2>1. asked' \in [Rows -> -1 .. 3]
    BY <1>1 DEF Each, NOT_FOUND
  <2>2. promise' \in [Rows -> -1 .. 3]
    BY <1>1 DEF TypeOK
  <2>3. page' \in {"none", "loading", "open"}
    BY <1>1 DEF TypeOK
  <2>4. own' \in BOOLEAN /\ wpc' = "idle"
    BY <1>1
  <2>. QED
    BY <1>1, <1>2, <2>1, <2>2, <2>3, <2>4 DEF TypeOK, device, tvars
<1>4. Shape' /\ OffIsClean'
  BY <1>1, <1>2 DEF Shape, OffIsClean, device, tvars
<1>5. AskedMet'
  BY <1>1, <1>2 DEF AskedMet, Meets, Each
<1>6. ErasedMet' /\ PromiseMet'
  <2>1. ErasedMet'
    BY <1>1, NothingWritten
  <2>2. ASSUME NEW r \in Rows \ erased PROVE Meets(r, promise[r])'
    <3>1. promise'[r] = promise[r] \/ promise'[r] = asked[r]
      BY <1>1
    <3>2. Meets(r, promise[r]) /\ Meets(r, asked[r])
      BY DEF PromiseMet, AskedMet
    <3>3. \A v : Meets(r, v) => Meets(r, v)'
      BY <1>1, NothingWritten
    <3>. QED
      BY <3>1, <3>2, <3>3
  <2>. QED
    BY <1>1, <1>2, <2>1, <2>2 DEF PromiseMet
<1>7. tlen > 0 => config_get(trow)' = config_get(trow)
  BY <1>1, NothingWritten DEF Shape, tvars
<1>8. LengthsRight'
  BY <1>1, <1>7 DEF LengthsRight, Changing, device, tvars
<1>9. KeptAsShown'
  BY <1>1, <1>2, NothingWritten DEF KeptAsShown, TypeOK
<1>. QED
  BY <1>3, <1>4, <1>5, <1>6, <1>8, <1>9

-----------------------------------------------------------------------------
(* The theorems *)

LEMMA InitIInv == Init => IInv
<1> SUFFICES ASSUME Init PROVE IInv
  OBVIOUS
<1>1. Len(table) \in Nat
  BY TablesAssumption DEF Init
<1>2. TypeOK
  <2>1. /\ nvs \in [Rows -> Stored \cup {NOT_FOUND}] /\ form \in [Rows -> -4 .. 3]
        /\ shown \in [Rows -> -4 .. 3]
    BY DEF Init, Each, NOT_FOUND, ABSENT
  <2>2. asked \in [Rows -> -1 .. 3] /\ promise \in [Rows -> -1 .. 3]
    BY DEF Init, Each, NOT_FOUND
  <2>3. /\ row \in 0 .. Len(table) + 1 /\ wlen \in 0 .. MaxText + 1
        /\ trow \in 0 .. Len(table) /\ tlen \in 0 .. MaxText + 1
    BY <1>1 DEF Init, MaxText
  <2>4. {on, restarting, own, garbage, overrun} \subseteq BOOLEAN
    BY DEF Init
  <2>5. table \in Tables /\ wpc = "idle" /\ bpc = "idle" /\ page = "none" /\ kept = {}
        /\ erased = {}
    BY DEF Init
  <2>. QED
    BY <2>1, <2>2, <2>3, <2>4, <2>5 DEF TypeOK
<1>3. Shape
  BY DEF Init, Shape, Each, Fields
<1>4. OffIsClean /\ LengthsRight /\ KeptAsShown
  BY DEF Init, OffIsClean, LengthsRight, KeptAsShown
<1>5. ErasedMet /\ PromiseMet /\ AskedMet
  BY DEF Init, ErasedMet, PromiseMet, AskedMet, Meets, Each
<1>. QED
  BY <1>2, <1>3, <1>4, <1>5 DEF IInv

LEMMA NextIInv == IInv /\ [Next]_vars => IInv'
<1> SUFFICES ASSUME IInv, [Next]_vars PROVE IInv'
  OBVIOUS
<1>1. CASE Boot \/ BootErased
  BY <1>1, StartStep
<1>2. CASE PowerLoss \/ RRestart \/ BRestart
  BY <1>2, StopStep DEF PowerLoss, RRestart, BRestart
<1>3. CASE BErase
  BY <1>3, EraseStep
<1>4. CASE TNext
  BY <1>4, ReadStep
<1>5. CASE WGet
  BY <1>5, GetStep
<1>6. CASE Submit
  BY <1>6, SubmitStep
<1>7. CASE WNext
  BY <1>7, MeasureStep, ShowStep, IgnoreStep, SetStep, RestartStep, RespondStep DEF WNext
<1>8. CASE UNCHANGED vars
  <2>1. UNCHANGED <<table, nvs, device, wvars, bpc, tvars, browser, history>> /\ Rows' = Rows
    BY <1>8 DEF vars, Rows
  <2>2. ErasedMet' /\ PromiseMet' /\ AskedMet' /\ KeptAsShown'
    BY <2>1, NothingWritten
  <2>3. TypeOK'
    BY <2>1 DEF IInv, TypeOK, device, wvars, tvars, browser, history
  <2>4. Shape' /\ OffIsClean'
    BY <2>1 DEF IInv, Shape, OffIsClean, device, wvars, tvars, history, Each
  <2>5. /\ tlen > 0 => config_get(trow)' = config_get(trow)
        /\ wpc = "value" => config_get(row)' = config_get(row)
    BY <2>1, NothingWritten DEF IInv, Shape, wvars, tvars
  <2>6. LengthsRight'
    BY <2>1, <2>5 DEF IInv, LengthsRight, Changing, device, wvars, tvars
  <2>. QED
    BY <2>2, <2>3, <2>4, <2>6 DEF IInv
<1>. QED
  BY <1>1, <1>2, <1>3, <1>4, <1>5, <1>6, <1>7, <1>8 DEF Next

\* The inductive invariant holds in every reachable state.
THEOREM Invariance == Spec => []IInv
BY InitIInv, NextIInv, PTL DEF Spec

\* Every variable stays within its type.
THEOREM TypeCorrect == Spec => []TypeOK
<1>1. IInv => TypeOK
  BY DEF IInv
<1>. QED
  BY <1>1, Invariance, PTL

\* What a form was told to have stored is what is read, through restarts, power losses
\* and later forms, until the item is written again; of an item that the button or a boot
\* has erased the default, of a number too large what fits.
THEOREM Durable == Spec => []AcknowledgedIsDurable
<1>1. IInv => AcknowledgedIsDurable
  BY DEF IInv, TypeOK, ErasedMet, PromiseMet, Meets, AcknowledgedIsDurable
<1>. QED
  BY <1>1, Invariance, PTL

\* A text that was read in two different states is only used until a restart that is
\* already under way.
THEOREM BadReadsEnd == Spec => []BadReadsEndInRestart
<1>1. IInv => BadReadsEndInRestart
  BY DEF IInv, LengthsRight, Changing, BadReadsEndInRestart
<1>. QED
  BY <1>1, Invariance, PTL

\* Storing again what was shown changes nothing, but for the alpha of a default black and
\* the line break of a connect message.
LEMMA ShownComesBack ==
  ASSUME TypeOK, Shape, NEW r \in Rows, NEW field,
         field = Posted(table[r], Shown(table[r], config_get_primitive(r))),
         ~(table[r] = "black" /\ config_get(r) = Default["black"]),
         ~(table[r] = "message" /\ config_get(r) = 1),
         Requested(table[r], field) # NOT_FOUND
  PROVE  Requested(table[r], field) = config_get_primitive(r)
<1>1. table[r] \in Kinds /\ nvs[r] \in Values(table[r]) \cup {NOT_FOUND}
  BY RowsAre DEF Shape
<1>2. config_get_primitive(r) \in Values(table[r])
  <2>1. Default[table[r]] \in Values(table[r]) \/ table[r] = "black"
    BY <1>1, KindsAre
  <2>2. table[r] = "black" => nvs[r] # NOT_FOUND
    BY DEF config_get, config_get_primitive
  <2>. QED
    BY <1>1, <2>1, <2>2 DEF config_get_primitive
<1>3. field = Shown(table[r], config_get_primitive(r))
  <2>1. table[r] # "pin"
    BY DEF Posted, Requested
  <2>2. CASE table[r] = "message"
    <3>1. config_get_primitive(r) # 1
      BY <2>2 DEF config_get
    <3>2. Shown(table[r], config_get_primitive(r)) = config_get_primitive(r)
      BY <2>2 DEF Shown, Seen, Colors
    <3>. QED
      BY <2>2, <3>1, <3>2 DEF Posted
  <2>. QED
    BY <2>1, <2>2 DEF Posted
<1>4. CASE table[r] \in Colors
  <2>1. config_get_primitive(r) \in {0, 3} /\ Default[table[r]] \in {1, 3}
        /\ table[r] \notin Numbers
    BY <1>1, <1>2, <1>4, KindsAre DEF Values, Texts, Colors, Numbers
  <2>2. Default[table[r]] % 2 = 1 /\ 0 \div 2 = 0 /\ 3 \div 2 = 1
    BY <2>1
  <2>3. field = config_get_primitive(r) \div 2
    BY <1>3, <1>4 DEF Shown, Seen, Colors
  <2>4. CASE config_get_primitive(r) = 0
    BY <2>1, <2>2, <2>3, <2>4 DEF Requested, ABSENT, BLANK, CONFIG_VALUE_UNCHANGED
  <2>5. CASE config_get_primitive(r) = 3
    BY <1>4, <2>1, <2>2, <2>3, <2>5 DEF Requested, ABSENT, BLANK, CONFIG_VALUE_UNCHANGED
  <2>. QED
    BY <2>1, <2>4, <2>5
<1>5. CASE table[r] \notin Colors
  <2>1. config_get_primitive(r) \in 0 .. 2
        /\ (table[r] \in Numbers => config_get_primitive(r) \in 0 .. 1)
    BY <1>2, <1>5 DEF Values, MaxText, Numbers, Texts
  <2>2. field # CONFIG_VALUE_UNCHANGED
    BY DEF Requested
  <2>3. field = config_get_primitive(r)
    BY <1>3, <1>5, <2>2 DEF Shown, Seen
  <2>4. CASE table[r] \in Numbers
    <3>1. field % 2 = field
      BY <2>1, <2>3, <2>4
    <3>. QED
      BY <2>1, <2>3, <2>4, <3>1 DEF Requested, NumberRange, ABSENT, BLANK, CONFIG_VALUE_UNCHANGED
  <2>5. CASE table[r] \notin Numbers
    BY <1>5, <2>1, <2>3, <2>5 DEF Requested, ABSENT, BLANK, CONFIG_VALUE_UNCHANGED
  <2>. QED
    BY <2>4, <2>5
<1>. QED
  BY <1>4, <1>5

\* A page that is submitted does not change what its user did not edit and nobody else
\* has written; excepted are default blacks and a line break in the connect message.
THEOREM UneditedKept == Spec => UneditedIsKept
<1> DEFINE Unedited(r) ==
      /\ own /\ wpc = "set" /\ row = r /\ row' = r + 1
      /\ r \in kept
      /\ \/ form[r] = ABSENT
         \/ /\ form[r] = Posted(table[r], shown[r])
            /\ ~(table[r] = "black" /\ config_get(r) = Default["black"])
            /\ ~(table[r] = "message" /\ config_get(r) = 1)
<1>1. IInv /\ [Next]_vars =>
        [\A r \in Rows : Unedited(r) => config_get(r)' = config_get(r)]_vars
  <2> SUFFICES ASSUME IInv, Next, NEW r \in Rows, Unedited(r)
               PROVE  config_get(r)' = config_get(r)
    OBVIOUS
  <2>1. WIgnore \/ WSet \/ WSetFails
    <3>1. r > 0 /\ row' > 1 /\ wpc = "set" /\ row' # row /\ on
      BY RowsAre DEF IInv, OffIsClean
    <3>2. ~(Boot \/ BootErased \/ PowerLoss \/ RRestart \/ BRestart)
      BY <3>1 DEF Boot, BootErased, Start, PowerLoss, RRestart, BRestart, Stop
    <3>3. ~(BErase \/ TNext)
      BY <3>1 DEF BErase, TNext, TRead, TMeasure, wvars
    <3>4. ~(WGet \/ Submit \/ WMeasure \/ WShow \/ WRestart \/ WRespond)
      BY <3>1 DEF WGet, Submit, WReceive, WReceivePart, WMeasure, WShow, WRestart, WRespond
    <3>. QED
      BY <3>2, <3>3, <3>4 DEF Next, WNext
  <2>2. CASE WIgnore \/ WSetFails
    BY <2>2, Unwritten DEF WIgnore, WSetFails, WNextItem
  <2>3. CASE WSet
    <3>1. form[r] # ABSENT /\ form[r] = Posted(table[r], Shown(table[r], config_get_primitive(r)))
      BY <2>3 DEF IInv, KeptAsShown, WSet, Requested
    <3>2. Requested(table[r], form[r]) = config_get_primitive(r)
      BY <2>3, <3>1, ShownComesBack DEF IInv, WSet
    <3>3. table' = table /\ nvs'[r] = config_get_primitive(r)
      BY <2>3, <3>2 DEF IInv, TypeOK, WSet, WNextItem
    <3>4. config_get_primitive(r) # NOT_FOUND
      BY <2>3, <3>2 DEF WSet
    <3>. QED
      BY <3>3, <3>4 DEF config_get, config_get_primitive
  <2>. QED
    BY <2>1, <2>2, <2>3
<1>. QED
  BY <1>1, Invariance, PTL DEF Spec, UneditedIsKept
=============================================================================
