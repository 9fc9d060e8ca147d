-------------------------- MODULE Calibration_proofs --------------------------
(***************************************************************************)
(* Proofs about Calibration, for every set of values a client may set.     *)
(*                                                                         *)
(* The argument: the record a handler is about to write differs from the   *)
(* cached one in one field, or is the default; the cached one is what the  *)
(* EEPROM says, unless a failure of the EEPROM has done harm; and in a     *)
(* record of this server the values that are not flagged are the defaults. *)
(* So the flags, which are written before the values, decide alone what a  *)
(* record cut off in the middle means.                                     *)
(***************************************************************************)
EXTENDS Calibration, TLAPS

\* what a handler may be writing
Requested ==
    \/ params = cache
    \/ params = getDefaultCalib
    \/ \E f \in Field : \E v \in Settable(f) : params = With(cache, f, v)

\* the inductive invariant
Records ==
    /\ eeprom \in Record /\ cache \in Record /\ params \in Record
    /\ writing \in BOOLEAN /\ lost \in BOOLEAN
    /\ lost \/ cache = calib_validate(eeprom)
    /\ writing \/ params = cache
    /\ Requested

-----------------------------------------------------------------------------
(* Lemmas about records.                                                   *)

\* The defaults are integers.
LEMMA DefaultType == \A f \in Field : Default(f) \in Int
  BY ValuesAreIntegers DEF Field, Kinds, Channels, Default

\* The default record is a clean record of this server.
LEMMA DefaultRecord ==
    getDefaultCalib \in Record /\ getDefaultCalib.daq /\ Clean(getDefaultCalib)
  BY DefaultType DEF getDefaultCalib, Values, Record, Clean

\* Whatever the EEPROM holds, its validation is a clean record of this server.
LEMMA Validated ==
    ASSUME NEW rec \in Record
    PROVE  /\ calib_validate(rec) \in Record
           /\ calib_validate(rec).daq
           /\ Clean(calib_validate(rec))
  BY DefaultType DEF calib_validate, Record, Clean

\* A clean record of this server is read as it is.
LEMMA CleanIsValid ==
    ASSUME NEW rec \in Record, rec.daq, Clean(rec)
    PROVE  calib_validate(rec) = rec
<1>1. calib_validate(rec).val = rec.val
  BY DEF calib_validate, Record, Clean
<1>2. calib_validate(rec).flags = rec.flags /\ calib_validate(rec).daq = rec.daq
  BY DEF calib_validate, Record
<1> QED
  BY <1>1, <1>2, Validated DEF Record

\* A handler that sets a value keeps the record clean.
LEMMA WithIsClean ==
    ASSUME NEW rec \in Record, rec.daq, Clean(rec), NEW f \in Field, NEW v \in Int
    PROVE  /\ With(rec, f, v) \in Record
           /\ With(rec, f, v).daq
           /\ Clean(With(rec, f, v))
  BY DEF With, Record, Clean

\* A record cut off anywhere is a record.
LEMMA TornType ==
    ASSUME NEW old \in Record, NEW new \in Record, NEW end \in Ends
    PROVE  Torn(old, new, end) \in Record
  BY DEF Torn, Record

\* A write or a read that ends early makes no difference between equal records,
\* one that comes to the end replaces all, one that comes to nothing replaces
\* nothing.
LEMMA TornEnds ==
    ASSUME NEW old \in Record, NEW new \in Record
    PROVE  /\ \A end \in Ends : Torn(old, old, end) = old
           /\ Torn(old, new, Whole) = new
           /\ Torn(old, new, Nothing) = old
<1>1. \A f \in Field : Place(f) < Whole /\ ~(Place(f) < Nothing)
  BY DEF Place, Field, Kinds, Channels, Whole, Nothing
<1> QED
  BY <1>1 DEF Torn, Record, Whole, Nothing

\* A reset cut off anywhere has happened or it has not.
LEMMA TornReset ==
    ASSUME NEW old \in Record, old.daq, Clean(old), NEW end \in Ends
    PROVE  calib_validate(Torn(old, getDefaultCalib, end)).val
               \in {old.val, getDefaultCalib.val}
<1> DEFINE t == Torn(old, getDefaultCalib, end)
<1>1. t \in Record /\ t.daq
  BY DefaultRecord, TornType DEF Torn, getDefaultCalib
<1>2. CASE end >= 0
  <2>1. t.flags = {}
    BY <1>2, DefaultRecord DEF Torn, getDefaultCalib
  <2>2. calib_validate(t).val = Values
    BY <1>1, <2>1 DEF calib_validate, Values
  <2> QED
    BY <2>2 DEF getDefaultCalib
<1>3. CASE ~(end >= 0)
  <2>1. t.flags = old.flags
    BY <1>3 DEF Torn
  <2>2. \A f \in Field : ~(Place(f) < end)
    BY <1>3 DEF Ends, Place, Field, Kinds, Channels
  <2>3. t.val = old.val
    BY <2>2 DEF Torn, Record
  <2>4. Clean(t)
    BY <2>1, <2>3 DEF Clean
  <2> QED
    BY <1>1, <2>3, <2>4, CleanIsValid
<1> QED
  BY <1>2, <1>3

\* So has the setting of a value; and what is left is read as it is.
LEMMA TornSet ==
    ASSUME NEW old \in Record, old.daq, Clean(old), NEW end \in Ends,
           NEW f \in Field, NEW v \in Int
    PROVE  /\ Torn(old, With(old, f, v), end).val \in {old.val, With(old, f, v).val}
           /\ calib_validate(Torn(old, With(old, f, v), end)) = Torn(old, With(old, f, v), end)
<1> DEFINE new == With(old, f, v)
           t == Torn(old, new, end)
<1>1. new \in Record /\ new.daq /\ Clean(new)
  BY WithIsClean
<1>2. t \in Record /\ t.daq
  BY <1>1, TornType DEF Torn
<1>3. \A g \in Field \ {f} : new.val[g] = old.val[g]
  BY DEF With, Record
<1>4. t.val \in {old.val, new.val}
  <2>1. CASE Place(f) < end
    <3>1. \A g \in Field : t.val[g] = new.val[g]
      BY <2>1, <1>3 DEF Torn
    <3> QED
      BY <3>1, <1>1, <1>2 DEF Record
  <2>2. CASE ~(Place(f) < end)
    <3>1. \A g \in Field : t.val[g] = old.val[g]
      BY <2>2, <1>3 DEF Torn
    <3> QED
      BY <3>1, <1>2 DEF Record
  <2> QED
    BY <2>1, <2>2
<1>5. ASSUME end >= 0 PROVE Clean(t)
  <2>1. t.flags = old.flags \union {f}
    BY <1>5 DEF Torn, With
  <2>2. \A g \in Field \ {f} : t.val[g] = old.val[g]
    BY <1>3, <1>4
  <2> QED
    BY <2>1, <2>2 DEF Clean
<1>6. ASSUME ~(end >= 0) PROVE Clean(t)
  <2>1. t.flags = old.flags
    BY <1>6 DEF Torn
  <2>2. \A g \in Field : ~(Place(g) < end)
    BY <1>6 DEF Ends, Place, Field, Kinds, Channels
  <2>3. t.val = old.val
    BY <2>2 DEF Torn, Record
  <2> QED
    BY <2>1, <2>3 DEF Clean
<1>7. Clean(t)
  BY <1>5, <1>6 DEF Ends
<1> QED
  BY <1>2, <1>4, <1>7, CleanIsValid

-----------------------------------------------------------------------------
(* The records.                                                            *)

\* how far a write may come, if the client is a careful one
MayEnd(end) == end \in Writes /\ (end \in {Nothing, Whole} \/ MayBeCut)

\* A handler writes a clean record of this server, unless harm was done before.
LEMMA RequestedIsValid ==
    ASSUME Records, ~lost
    PROVE  /\ cache \in Record /\ cache.daq /\ Clean(cache)
           /\ params.daq /\ Clean(params)
           /\ calib_validate(params) = params
<1>1. cache \in Record /\ cache.daq /\ Clean(cache)
  BY Validated DEF Records
<1>2. params.daq /\ Clean(params)
  BY <1>1, DefaultRecord, WithIsClean, ValuesAreIntegers DEF Records, Requested
<1> QED
  BY <1>1, <1>2, CleanIsValid DEF Records

\* However far the write came, the EEPROM holds the values that were stored
\* before, or those the command asked for.
LEMMA FoundAtStart ==
    ASSUME Records, NEW end, MayEnd(end)
    PROVE  /\ Left(end) \in Record
           /\ ~lost => calib_validate(Left(end)).val \in {calib_validate(eeprom).val, params.val}
<1>1. end \in Ends
  BY CutsAreEnds DEF MayEnd
<1>2. Left(end) \in Record
  BY <1>1, TornType DEF Left, Records
<1>3. ASSUME ~lost, writing, end \in {Nothing, Whole}
      PROVE  calib_validate(Left(end)).val \in {calib_validate(eeprom).val, params.val}
  BY <1>3, TornEnds, RequestedIsValid DEF Left, Records
<1>4. ASSUME ~lost, writing, MayBeCut
      PROVE  calib_validate(Left(end)).val \in {calib_validate(eeprom).val, params.val}
  <2>1. eeprom \in Record /\ eeprom.daq /\ Clean(eeprom) /\ cache = eeprom
    BY <1>4, CleanIsValid DEF MayBeCut, Records
  <2>2. calib_validate(eeprom) = eeprom
    BY <2>1, CleanIsValid
  <2>3. CASE params = cache
    BY <1>1, <1>4, <2>1, <2>3, TornEnds DEF Left
  <2>4. CASE params = getDefaultCalib
    BY <1>1, <1>4, <2>1, <2>2, <2>4, TornReset DEF Left
  <2>5. ASSUME NEW f \in Field, NEW v \in Settable(f), params = With(cache, f, v)
        PROVE  calib_validate(Left(end)).val \in {calib_validate(eeprom).val, params.val}
    BY <1>1, <1>4, <2>1, <2>2, <2>5, TornSet, ValuesAreIntegers DEF Left
  <2> QED
    BY <2>3, <2>4, <2>5 DEF Records, Requested
<1> QED
  BY <1>2, <1>3, <1>4 DEF Left, MayEnd

\* What a set that was cut off leaves in the place of a clean record is clean.
LEMMA CutSetIsClean ==
    ASSUME Records, ~lost, writing, eeprom.daq, Clean(eeprom), params # getDefaultCalib,
           NEW end \in Ends
    PROVE  calib_validate(Torn(eeprom, params, end)) = Torn(eeprom, params, end)
<1>1. cache = eeprom
  BY CleanIsValid DEF Records
<1>2. CASE params = cache
  BY <1>1, <1>2, TornEnds DEF Records
<1>3. ASSUME NEW f \in Field, NEW v \in Settable(f), params = With(cache, f, v)
      PROVE  calib_validate(Torn(eeprom, params, end)) = Torn(eeprom, params, end)
  BY <1>1, <1>3, TornSet, ValuesAreIntegers DEF Records
<1> QED
  BY <1>2, <1>3 DEF Records, Requested

\* A command that does no harm leaves the handler with the record that the EEPROM
\* holds, and that is the one before or the requested one.
LEMMA NoHarmIsDone ==
    ASSUME Records, ~lost, NEW end, MayEnd(end), NEW got \in Reads,
           WriteAndApply(end, got), ~lost'
    PROVE  /\ cache' = calib_validate(eeprom')
           /\ cache'.val \in {cache.val, params.val}
<1>0. end \in Ends /\ got \in Ends /\ eeprom \in Record /\ cache \in Record /\ params \in Record
  BY CutsAreEnds DEF MayEnd, Records
<1>1. /\ eeprom' = Torn(eeprom, params, end) /\ eeprom' \in Record
      /\ cache' = Torn(cache, eeprom', got)
      /\ cache = calib_validate(eeprom) /\ calib_validate(params) = params
  BY <1>0, TornType, RequestedIsValid DEF WriteAndApply, Records
<1>2. CASE end = Whole /\ got = Whole
  BY <1>0, <1>1, <1>2, TornEnds
<1>3. CASE end = Nothing /\ got = Nothing
  BY <1>0, <1>1, <1>3, TornEnds
<1>4. CASE eeprom.daq /\ Clean(eeprom) /\ end = Nothing
  <2>1. eeprom' = eeprom /\ cache = eeprom
    BY <1>0, <1>1, <1>4, TornEnds, CleanIsValid
  <2> QED
    BY <1>0, <1>1, <2>1, TornEnds
<1>5. CASE eeprom.daq /\ Clean(eeprom) /\ got = Whole /\ params # getDefaultCalib
  <2>1. cache' = eeprom'
    BY <1>0, <1>1, <1>5, TornEnds
  <2>2. calib_validate(eeprom') = eeprom'
    BY <1>0, <1>1, <1>5, CutSetIsClean DEF WriteAndApply
  <2>3. calib_validate(eeprom').val \in {cache.val, params.val}
    BY <1>1, FoundAtStart DEF Left, WriteAndApply
  <2> QED
    BY <2>1, <2>2, <2>3
<1>6. Harmless(end, got)
  BY <1>2 DEF WriteAndApply, Harmless
<1> QED
  BY <1>2, <1>3, <1>4, <1>5, <1>6 DEF Harmless

\* A reset that went well mends what was lost.
LEMMA ResetMends ==
    ASSUME Records, lost, NEW end, NEW got, WriteAndApply(end, got), ~lost'
    PROVE  eeprom' = getDefaultCalib /\ cache' = getDefaultCalib
<1>1. params = getDefaultCalib /\ end = Whole /\ got = Whole
  BY DEF WriteAndApply
<1>2. eeprom' = getDefaultCalib
  BY <1>1, TornEnds, DefaultRecord DEF WriteAndApply, Records
<1> QED
  BY <1>1, <1>2, TornEnds, DefaultRecord DEF WriteAndApply, Records

\* Records holds at the start.
LEMMA RecordsInit == Init => Records
<1>1. ASSUME Init PROVE eeprom \in Record
  <2>1. \A flags \in SUBSET Field : Unknown(flags) \in Record
    BY ValuesAreIntegers DEF Unknown, Record
  <2> QED
    BY <1>1, <2>1, DefaultRecord DEF Init
<1> QED
  BY <1>1, Validated DEF Init, Records, Requested

LEMMA StaticRecord == Static \in Record
  BY DEF Static, Record

\* A start reads the record that the EEPROM holds, if the read does not fail.
LEMMA BootsReads ==
    ASSUME NEW rec \in Record, NEW got \in Ends, NEW regs, Boots(rec, got, regs)
    PROVE  /\ cache' \in Record
           /\ got = Whole => cache' = calib_validate(eeprom')
<1>1. Torn(Static, rec, got) \in Record
  BY StaticRecord, TornType
<1>2. got = Whole => Torn(Static, rec, got) = rec
  BY StaticRecord, TornEnds
<1> QED
  BY <1>1, <1>2, Validated DEF Boots

\* A start makes Records hold ...
LEMMA RecordsBoots ==
    ASSUME NEW rec \in Record, NEW got \in Ends, NEW regs, Boots(rec, got, regs),
           lost' \in BOOLEAN, got = Whole \/ lost'
    PROVE  Records'
  BY BootsReads DEF Boots, Records, Requested

\* ... the end of a command preserves it ...
LEMMA RecordsWrite ==
    ASSUME Records, NEW end, MayEnd(end), NEW got \in Reads, WriteAndApply(end, got)
    PROVE  Records'
<1>1. end \in Ends /\ got \in Ends
  BY CutsAreEnds DEF MayEnd
<1>2. eeprom' \in Record
  BY <1>1, TornType DEF WriteAndApply, Records
<1>3. cache' \in Record
  BY <1>1, <1>2, TornType DEF WriteAndApply, Records
<1>4. lost' \in BOOLEAN
  BY DEF WriteAndApply, Records, Harmless
<1>5. lost' \/ cache' = calib_validate(eeprom')
  <2>1. CASE ~lost /\ ~lost'
    BY <2>1, NoHarmIsDone
  <2>2. CASE lost /\ ~lost'
    BY <2>2, ResetMends, DefaultRecord, CleanIsValid
  <2> QED
    BY <1>4, <2>1, <2>2 DEF Records
<1> QED
  BY <1>2, <1>3, <1>4, <1>5 DEF WriteAndApply, Records, Requested

\* ... and so does every step.
LEMMA RecordsNext == Records /\ [CarefulNext]_vars => Records'
<1> SUFFICES ASSUME Records, [CarefulNext]_vars PROVE Records'
  OBVIOUS
<1>1. CASE RP_SetServerMode
  BY <1>1 DEF RP_SetServerMode, Records, Requested
<1>2. CASE RP_ResetCalibration
  BY <1>2, DefaultRecord DEF RP_ResetCalibration, StartsWriting, Records, Requested
<1>3. ASSUME NEW end \in Writes, MayEnd(end), Outcomes(end)
      PROVE  Records'
  <2>1. PICK got \in Reads : \/ WriteAndApply(end, got) \/ PowerCycle(end, got)
                             \/ RestartServer(end, got)
    BY <1>3 DEF Outcomes
  <2>2. Left(end) \in Record /\ got \in Ends
    BY <1>3, FoundAtStart, CutsAreEnds
  <2>3. CASE WriteAndApply(end, got)
    BY <1>3, <2>3, RecordsWrite
  <2>4. CASE PowerCycle(end, got)
    BY <2>2, <2>4, RecordsBoots DEF PowerCycle
  <2>5. CASE RestartServer(end, got)
    <3>1. lost' \in BOOLEAN /\ (got = Whole \/ lost')
      BY <2>5 DEF RestartServer, Records
    <3> QED
      BY <2>2, <2>5, <3>1, RecordsBoots DEF RestartServer
  <2> QED
    BY <2>1, <2>3, <2>4, <2>5
<1>4. ASSUME NEW c \in Channels, NEW a \in Amplitudes, RP_DAC_SetAmplitude(c, a)
      PROVE  Records'
  BY <1>4 DEF RP_DAC_SetAmplitude, Records, Requested
<1>5. ASSUME NEW f \in Field, NEW v \in Settable(f), RP_Calib_Set(f, v)
      PROVE  Records'
  <2>1. With(cache, f, v) \in Record
    BY ValuesAreIntegers DEF With, Record, Records
  <2> QED
    BY <1>5, <2>1 DEF RP_Calib_Set, StartsWriting, Records, Requested
<1>6. CASE stopTx \/ UNCHANGED vars
  BY <1>6 DEF stopTx, vars, Records, Requested
<1> QED
  BY <1>1, <1>2, <1>3, <1>4, <1>5, <1>6 DEF CarefulNext, Commands, MayEnd

\* The record that the EEPROM holds and the one that a handler writes and the
\* server uses agree as Records says, whatever values clients set.
THEOREM RecordsAgree == CarefulSpec => []Records
<1>1. Init => Records
  BY RecordsInit
<1>2. Records /\ [CarefulNext]_vars => Records'
  BY RecordsNext
<1> QED
  BY <1>1, <1>2, PTL DEF CarefulSpec

-----------------------------------------------------------------------------
(* The EEPROM as a store.                                                  *)

LEMMA StoreInit == Init => Store!Init
<1>1. ASSUME Init PROVE calib_validate(eeprom).val = Values
  BY <1>1 DEF Init, Unknown, getDefaultCalib, calib_validate, Values
<1> QED
  BY <1>1 DEF Init, Store!Init, Store!Defaults, Values

\* A start ends the command: it was done or it was not.
LEMMA StoreBoots ==
    ASSUME Records, NEW end, MayEnd(end), NEW got \in Reads, NEW regs,
           Boots(Left(end), got, regs), lost' \in BOOLEAN, got = Whole \/ lost'
    PROVE  Store!Next
<1>1. /\ Left(end) \in Record /\ got \in Ends
      /\ ~lost => calib_validate(Left(end)).val \in {calib_validate(eeprom).val, params.val}
  BY FoundAtStart, CutsAreEnds
<1>2. eeprom' = Left(end) /\ params' = cache'
  BY DEF Boots
<1>3. ~lost' => params' = calib_validate(eeprom')
  BY <1>1, <1>2, BootsReads
<1> QED
  BY <1>1, <1>2, <1>3
     DEF Records, Store!Next, Store!Keeps, Store!Commit, Store!Abort, Store!Lose, Store!Wander,
         Store!Recover

\* So does the handler, and what was stored is there as a whole also if the
\* handler does not get to know.
LEMMA StoreWrites ==
    ASSUME Records, NEW end, MayEnd(end), NEW got \in Reads, WriteAndApply(end, got)
    PROVE  Store!Next
<1>1. /\ eeprom' = Left(end) /\ params' = cache' /\ lost' \in BOOLEAN
      /\ ~lost => cache = calib_validate(eeprom)
  BY RecordsWrite DEF WriteAndApply, Left, Records
<1>2. CASE ~lost /\ ~lost'
  BY <1>1, <1>2, NoHarmIsDone DEF Store!Next, Store!Keeps, Store!Commit, Store!Abort
<1>3. CASE ~lost /\ lost'
  BY <1>1, <1>3, FoundAtStart DEF Store!Next, Store!Lose
<1>4. CASE lost /\ ~lost'
  BY <1>1, <1>4, ResetMends, DefaultRecord, CleanIsValid DEF Store!Next, Store!Recover
<1> QED
  BY <1>1, <1>2, <1>3, <1>4 DEF Store!Next, Store!Wander, Records

LEMMA StoreNext ==
    ASSUME Records, [CarefulNext]_vars
    PROVE  [Store!Next]_<<calib_validate(eeprom).val, params.val, lost>>
<1> DEFINE stored == calib_validate(eeprom).val
<1>1. CASE RP_SetServerMode
  BY <1>1 DEF RP_SetServerMode
<1>2. ASSUME NEW rec, StartsWriting(rec),
             ~lost => \/ rec = getDefaultCalib
                      \/ \E f \in Field : \E v \in Settable(f) : rec = With(cache, f, v)
      PROVE  Store!Next
  <2>1. stored' = stored /\ lost' = lost /\ params' = rec
    BY <1>2 DEF StartsWriting
  <2>2. ASSUME ~lost PROVE Store!Begin
    <3>1. params.val = stored /\ cache.val = stored /\ cache \in Record
      BY <1>2, <2>2 DEF StartsWriting, Records
    <3>2. CASE rec = getDefaultCalib
      BY <2>1, <3>1, <3>2 DEF getDefaultCalib, Values, Store!Begin, Store!Reset, Store!Defaults
    <3>3. ASSUME NEW f \in Field, NEW v \in Settable(f), rec = With(cache, f, v)
          PROVE  Store!Begin
      <4>1. params'.val = [stored EXCEPT ![f] = v]
        BY <2>1, <3>1, <3>3 DEF With
      <4> QED
        BY <2>1, <3>1, <4>1 DEF Store!Begin, Store!Set
    <3> QED
      BY <1>2, <2>2, <3>2, <3>3
  <2> QED
    BY <2>1, <2>2 DEF Store!Next, Store!Keeps, Store!Wander, Records
<1>3. CASE RP_ResetCalibration
  BY <1>2, <1>3 DEF RP_ResetCalibration
<1>4. ASSUME NEW f \in Field, NEW v \in Settable(f), RP_Calib_Set(f, v)
      PROVE  Store!Next
  BY <1>2, <1>4 DEF RP_Calib_Set
<1>5. ASSUME NEW c \in Channels, NEW a \in Amplitudes, RP_DAC_SetAmplitude(c, a)
      PROVE  UNCHANGED <<stored, params.val, lost>>
  BY <1>5 DEF RP_DAC_SetAmplitude
<1>6. ASSUME NEW end \in Writes, MayEnd(end), Outcomes(end)
      PROVE  Store!Next
  <2>1. PICK got \in Reads : \/ WriteAndApply(end, got) \/ PowerCycle(end, got)
                             \/ RestartServer(end, got)
    BY <1>6 DEF Outcomes
  <2>2. CASE WriteAndApply(end, got)
    BY <1>6, <2>2, StoreWrites
  <2>3. CASE PowerCycle(end, got)
    BY <1>6, <2>3, StoreBoots DEF PowerCycle
  <2>4. CASE RestartServer(end, got)
    <3>1. lost' \in BOOLEAN /\ (got = Whole \/ lost')
      BY <2>4 DEF RestartServer, Records
    <3> QED
      BY <1>6, <2>4, <3>1, StoreBoots DEF RestartServer
  <2> QED
    BY <2>1, <2>2, <2>3, <2>4
<1>7. CASE stopTx \/ UNCHANGED vars
  BY <1>7 DEF stopTx, vars
<1> QED
  BY <1>1, <1>3, <1>4, <1>5, <1>6, <1>7 DEF CarefulNext, Commands, MayEnd

\* A set or reset command replaces what the next start reads as a whole or not
\* at all, wherever the write of the record is cut off, and also if the EEPROM
\* fails; as long as no failure does harm, every command starts from it.
THEOREM CalibrationIsStored == CarefulSpec => StoresAtomically
<1>1. Init => Store!Init
  BY StoreInit
<1>2. Records /\ [CarefulNext]_vars
          => [Store!Next]_<<calib_validate(eeprom).val, params.val, lost>>
  BY StoreNext
<1>3. CarefulSpec => []Records
  BY RecordsAgree
<1> QED
  BY <1>1, <1>2, <1>3, PTL DEF CarefulSpec, StoresAtomically, Store!Spec

-----------------------------------------------------------------------------
(* The registers.                                                          *)

Fits(cal, c) == InRange(cal.val[<<"dac_offs", c>>] * getCalibDACScale(cal, c))

\* The registers are those of the cached record, and a handler does not take an
\* offset out of range: inductive together with Records.
Registers ==
    /\ ~lost => /\ \A c \in Channels : Fits(cache, c) => Fits(params, c)
                /\ Settings(fpga) = Settings(Applied(Blank, cache))
    /\ OutputsAreInScale

\* The limits are those of the values alone; so is an offset that fits, and one
\* that does not is zero if it was.
LEMMA SettingsOfRecord ==
    ASSUME NEW cal, NEW regs, \A c \in Channels : Fits(cal, c) \/ regs.offset[c] = 0
    PROVE  Settings(Applied(regs, cal)) = Settings(Applied(Blank, cal))
<1>1. ASSUME NEW c \in Channels PROVE Offset(regs, cal, c) = Offset(Blank, cal, c)
  BY <1>1 DEF Fits, Offset, Blank, Zero
<1> QED
  BY <1>1 DEF Settings, Applied

\* The settings of a record are a matter of its values.
LEMMA SettingsOfValues ==
    ASSUME NEW cal, NEW other, cal.val = other.val
    PROVE  /\ Settings(Applied(Blank, cal)) = Settings(Applied(Blank, other))
           /\ \A c \in Channels : Fits(cal, c) = Fits(other, c)
  BY DEF Settings, Applied, Offset, Limit, Fits, getCalibDACScale, getCalibDACOffset

\* Whatever the command has come to, the registers are those a start would set.
LEMMA SettingsFollow ==
    ASSUME Registers, ~lost, NEW cal, cal.val \in {cache.val, params.val}
    PROVE  Settings(Applied(fpga, cal)) = Settings(Applied(Blank, cal))
<1>1. ASSUME NEW c \in Channels PROVE Fits(cal, c) \/ fpga.offset[c] = 0
  <2>1. fpga.offset[c] = Offset(Blank, cache, c)
    BY DEF Registers, Settings, Applied
  <2>2. Fits(cache, c) => Fits(cal, c)
    BY SettingsOfValues DEF Registers
  <2> QED
    BY <2>1, <2>2 DEF Offset, Fits, Blank, Zero
<1> QED
  BY <1>1, SettingsOfRecord

\* After a record was applied every output is off.
LEMMA AppliedIsOff ==
    ASSUME cache' \in Record, \E regs : fpga' = Applied(regs, cache'), asked' = Zero
    PROVE  OutputsAreInScale'
<1>1. \A c \in Channels : cache'.val[<<"dac_fs", c>>] \in Int
  BY DEF Record, Field, Kinds
<1>2. \A c \in Channels : fpga'.amplitude[c] = 0 /\ asked'[c] = 0
  BY DEF Applied, Zero
<1>3. ASSUME NEW c \in Channels
      PROVE  fpga'.amplitude[c] = asked'[c] * cache'.val[<<"dac_fs", c>>]
  BY <1>1, <1>2
<1> QED
  BY <1>3 DEF OutputsAreInScale, getCalibDACScale

\* A handler keeps the offsets in range: with the scale, and with the offset.
LEMMA SetKeepsRange ==
    ASSUME Records, NEW f \in Field, NEW v \in Settable(f), KeepsOffset(f, v),
           f[1] = "dac_offs" => InRange(v * getCalibDACScale(cache, f[2])),
           NEW c \in Channels, Fits(cache, c)
    PROVE  Fits(With(cache, f, v), c)
<1> DEFINE new == With(cache, f, v)
<1> SUFFICES InRange(new.val[<<"dac_offs", c>>] * new.val[<<"dac_fs", c>>])
  BY DEF Fits, getCalibDACScale
<1>1. \A g \in Field : new.val[g] = IF g = f THEN v ELSE cache.val[g]
  BY DEF With, Records, Record
<1>2. <<"dac_offs", c>> \in Field /\ <<"dac_fs", c>> \in Field
  BY DEF Field, Kinds
<1>3. CASE f = <<"dac_offs", c>>
  BY <1>1, <1>2, <1>3 DEF getCalibDACScale
<1>4. CASE f = <<"dac_fs", c>>
  BY <1>1, <1>2, <1>4 DEF KeepsOffset
<1>5. CASE f # <<"dac_offs", c>> /\ f # <<"dac_fs", c>>
  BY <1>1, <1>2, <1>5 DEF Fits, getCalibDACScale
<1> QED
  BY <1>3, <1>4, <1>5

LEMMA DefaultFits == \A c \in Channels : Fits(getDefaultCalib, c)
  BY ValuesAreIntegers
     DEF Fits, getDefaultCalib, Values, getCalibDACScale, InRange, Default,
         Field, Kinds

DAC == [offset : [Channels -> -Full .. Full],
        lower  : [Channels -> -Full .. Full],
        upper  : [Channels -> -Full .. Full],
        amplitude : [Channels -> 0 .. Full]]

\* No record takes a register out of the range of the DAC.
LEMMA AppliedType ==
    ASSUME NEW cal \in Record, NEW regs, regs.offset \in [Channels -> -Full .. Full]
    PROVE  Applied(regs, cal) \in DAC
<1>1. \A f \in Field : cal.val[f] \in Int
  BY DEF Record
<1>2. \A kind \in Kinds, c \in Channels : <<kind, c>> \in Field
  BY DEF Field
<1>3. \A c \in Channels : getCalibDACScale(cal, c) \in Int /\ getCalibDACOffset(cal, c) \in Int
  BY <1>1, <1>2 DEF getCalibDACScale, getCalibDACOffset, Kinds, Channels
<1>4. \A x \in Int : Clipped(x) \in -Full .. Full
  BY ValuesAreIntegers DEF Clipped
<1>5. \A c \in Channels : Offset(regs, cal, c) \in -Full .. Full
  <2> TAKE c \in Channels
  <2>1. cal.val[<<"dac_offs", c>>] \in Int
    BY <1>1, <1>2 DEF Kinds
  <2>2. cal.val[<<"dac_offs", c>>] * getCalibDACScale(cal, c) \in Int
    BY <1>3, <2>1
  <2> QED
    BY <2>2, ValuesAreIntegers DEF Offset, InRange
<1>6. \A kind \in {"dac_lower", "dac_upper"}, c \in Channels : Limit(cal, kind, c) \in -Full .. Full
  <2> TAKE kind \in {"dac_lower", "dac_upper"}, c \in Channels
  <2>1. cal.val[<<kind, c>>] \in Int
    BY <1>1, <1>2 DEF Kinds
  <2>2. cal.val[<<kind, c>>] + getCalibDACOffset(cal, c) \in Int
    BY <1>3, <2>1
  <2>3. (cal.val[<<kind, c>>] + getCalibDACOffset(cal, c)) * getCalibDACScale(cal, c) \in Int
    BY <1>3, <2>2
  <2> QED
    BY <1>4, <2>3 DEF Limit
<1> QED
  BY <1>5, <1>6, ValuesAreIntegers DEF Applied, DAC

LEMMA TypeInit == Init => TypeOK
<1> SUFFICES ASSUME Init PROVE TypeOK
  OBVIOUS
<1>1. Records
  BY RecordsInit
<1>2. fpga \in DAC
  BY <1>1, AppliedType, ValuesAreIntegers DEF Init, Blank, Zero, Records
<1> QED
  BY <1>1, <1>2 DEF Init, TypeOK, DAC, Zero, Records

LEMMA TypeNext == Records /\ TypeOK /\ [CarefulNext]_vars => TypeOK'
<1> SUFFICES ASSUME Records, TypeOK, [CarefulNext]_vars PROVE TypeOK'
  OBVIOUS
<1>1. Records'
  BY RecordsNext
<1>2. CASE UNCHANGED <<mode, fpga, asked>>
  BY <1>1, <1>2 DEF TypeOK, Records
<1>3. CASE RP_SetServerMode
  BY <1>1, <1>3 DEF RP_SetServerMode, TypeOK, Records
<1>4. ASSUME mode' \in {mode, "CONFIGURATION"}, asked' = Zero,
             \/ \E regs \in {fpga, Blank} : fpga' = Applied(regs, cache')
      PROVE  TypeOK'
  <2>1. fpga' \in DAC
    BY <1>1, <1>4, AppliedType, ValuesAreIntegers DEF Records, TypeOK, Blank, Zero
  <2> QED
    BY <1>1, <1>4, <2>1 DEF TypeOK, Records, DAC, Zero
<1>5. ASSUME NEW c \in Channels, NEW a \in Amplitudes, RP_DAC_SetAmplitude(c, a)
      PROVE  TypeOK'
  <2>1. getCalibDACScale(cache, c) \in Int
    BY DEF Records, Record, getCalibDACScale, Field, Kinds
  <2>2. a * getCalibDACScale(cache, c) \in 0 .. Full
    BY <1>5, <2>1, ValuesAreIntegers DEF RP_DAC_SetAmplitude
  <2> QED
    BY <1>1, <1>5, <2>2, ValuesAreIntegers DEF RP_DAC_SetAmplitude, TypeOK, Records
<1>6. CASE stopTx
  BY <1>1, <1>6, ValuesAreIntegers DEF stopTx, TypeOK, Records, Zero
<1>7. ASSUME NEW end \in Writes, Outcomes(end) PROVE TypeOK'
  BY <1>4, <1>7 DEF Outcomes, WriteAndApply, PowerCycle, RestartServer, Boots
<1> QED
  BY <1>2, <1>3, <1>5, <1>6, <1>7
     DEF CarefulNext, Commands, vars, RP_ResetCalibration, RP_Calib_Set, StartsWriting

\* No value leaves its type: no command and no restart takes a register out of
\* the range of the DAC.
THEOREM CalibrationTypes == CarefulSpec => []TypeOK
<1>1. Init => TypeOK
  BY TypeInit
<1>2. Records /\ TypeOK /\ [CarefulNext]_vars => TypeOK'
  BY TypeNext
<1> QED
  BY <1>1, <1>2, RecordsAgree, PTL DEF CarefulSpec

LEMMA RegistersInit == Init => Registers
<1> SUFFICES ASSUME Init PROVE Registers
  OBVIOUS
<1>1. cache.val = getDefaultCalib.val
  BY DEF Init, Unknown, getDefaultCalib, calib_validate, Values
<1>2. \A c \in Channels : cache.val[<<"dac_fs", c>>] = 1
  BY <1>1 DEF getDefaultCalib, Values, Default, Field, Kinds
<1> QED
  BY <1>2 DEF Init, Registers, OutputsAreInScale, Applied, Zero, getCalibDACScale

\* A start, and the end of a command, leave the registers of the cached record.
LEMMA RegistersApplied ==
    ASSUME Records', params' = cache', asked' = Zero,
           NEW regs, fpga' = Applied(regs, cache'),
           ~lost' => Settings(Applied(regs, cache')) = Settings(Applied(Blank, cache'))
    PROVE  Registers'
<1>1. OutputsAreInScale'
  BY AppliedIsOff DEF Records
<1>2. ~lost' => Settings(fpga)' = Settings(Applied(Blank, cache))'
  BY DEF Settings, Applied, Blank, Zero, Offset, Limit, getCalibDACScale, getCalibDACOffset
<1>3. \A c \in Channels : Fits(cache, c)' => Fits(params, c)'
  BY DEF Fits, getCalibDACScale
<1> QED
  BY <1>1, <1>2, <1>3 DEF Registers

LEMMA RegistersBoots ==
    ASSUME Records, Records', Registers, NEW end, MayEnd(end), NEW got \in Reads,
           PowerCycle(end, got) \/ RestartServer(end, got)
    PROVE  Registers'
<1>1. /\ Left(end) \in Record /\ got \in Ends
      /\ ~lost => calib_validate(Left(end)).val \in {calib_validate(eeprom).val, params.val}
  BY FoundAtStart, CutsAreEnds
<1>2. CASE PowerCycle(end, got)
  BY <1>2, RegistersApplied DEF PowerCycle, Boots
<1>3. CASE RestartServer(end, got)
  <2>1. ASSUME ~lost'
        PROVE  Settings(Applied(fpga, cache')) = Settings(Applied(Blank, cache'))
    <3>1. ~lost /\ got = Whole
      BY <1>3, <2>1 DEF RestartServer
    <3>2. cache' = calib_validate(Left(end))
      BY <1>1, <1>3, <3>1, BootsReads DEF RestartServer, Boots
    <3> QED
      BY <1>1, <3>1, <3>2, SettingsFollow DEF Records
  <2> QED
    BY <1>3, <2>1, RegistersApplied DEF RestartServer, Boots
<1> QED
  BY <1>2, <1>3

LEMMA RegistersWrite ==
    ASSUME Records, Records', Registers, NEW end, MayEnd(end), NEW got \in Reads,
           WriteAndApply(end, got)
    PROVE  Registers'
<1>1. ASSUME ~lost'
      PROVE  Settings(Applied(fpga, cache')) = Settings(Applied(Blank, cache'))
  <2>1. CASE ~lost
    BY <1>1, <2>1, NoHarmIsDone, SettingsFollow
  <2>2. CASE lost
    BY <1>1, <2>2, ResetMends, DefaultFits, SettingsOfRecord
  <2> QED
    BY <2>1, <2>2
<1> QED
  BY <1>1, RegistersApplied DEF WriteAndApply

\* Registers is preserved by every step.
LEMMA RegistersNext ==
    Records /\ TypeOK /\ Registers /\ [CarefulNext]_vars => Registers'
<1> SUFFICES ASSUME Records, TypeOK, Registers, [CarefulNext]_vars PROVE Registers'
  OBVIOUS
<1>1. CASE UNCHANGED <<cache, fpga, asked, lost, params>>
  BY <1>1 DEF Registers, Fits, getCalibDACScale, OutputsAreInScale, Applied, Settings
<1>2. ASSUME UNCHANGED <<cache, fpga, asked, lost>>,
             \A c \in Channels : Fits(cache, c) => Fits(params', c)
      PROVE  Registers'
  BY <1>2 DEF Registers, Fits, getCalibDACScale, OutputsAreInScale, Applied, Settings
<1>3. CASE RP_ResetCalibration
  BY <1>2, <1>3, DefaultFits DEF RP_ResetCalibration, StartsWriting
<1>4. ASSUME NEW f \in Field, NEW v \in Settable(f), KeepsOffset(f, v), RP_Calib_Set(f, v)
      PROVE  Registers'
  BY <1>2, <1>4, SetKeepsRange DEF RP_Calib_Set, StartsWriting
<1>5. ASSUME NEW c \in Channels, NEW a \in Amplitudes, RP_DAC_SetAmplitude(c, a)
      PROVE  Registers'
  <2>1. OutputsAreInScale'
    BY <1>5 DEF RP_DAC_SetAmplitude, TypeOK, Registers, OutputsAreInScale
  <2> QED
    BY <1>5, <2>1
       DEF RP_DAC_SetAmplitude, TypeOK, Registers, Settings, Applied, Fits, getCalibDACScale
<1>6. ASSUME NEW end \in Writes, MayEnd(end), Outcomes(end)
      PROVE  Registers'
  BY <1>6, RecordsNext, RegistersBoots, RegistersWrite DEF Outcomes
<1>7. CASE stopTx
  <2>1. \A c \in Channels : cache.val[<<"dac_fs", c>>] \in Int
    BY DEF Records, Record, Field, Kinds
  <2>2. OutputsAreInScale'
    <3>1. \A c \in Channels : fpga'.amplitude[c] = 0 /\ asked'[c] = 0
      BY <1>7 DEF stopTx, TypeOK, Zero
    <3>2. ASSUME NEW c \in Channels
          PROVE  fpga'.amplitude[c] = asked'[c] * cache'.val[<<"dac_fs", c>>]
      BY <1>7, <2>1, <3>1 DEF stopTx
    <3> QED
      BY <3>2 DEF OutputsAreInScale, getCalibDACScale
  <2> QED
    BY <1>7, <2>2 DEF stopTx, TypeOK, Registers, Settings, Applied, Fits, getCalibDACScale
<1> QED
  BY <1>1, <1>3, <1>4, <1>5, <1>6, <1>7
     DEF CarefulNext, Commands, MayEnd, RP_SetServerMode, vars

LEMMA RegistersAreApplied == CarefulSpec => []Registers
<1>1. Init => Registers
  BY RegistersInit
<1>2. Records /\ TypeOK /\ Registers /\ [CarefulNext]_vars => Registers'
  BY RegistersNext
<1> QED
  BY <1>1, <1>2, RecordsAgree, CalibrationTypes, PTL DEF CarefulSpec

\* Between two commands a restart changes neither the cached values nor the
\* settings of the DAC, although the handlers ignore a failure of the EEPROM, as
\* long as none was of the kind that does harm.
THEOREM RestartIsHarmless == CarefulSpec => []RestartChangesNothing
<1>1. Records /\ Registers => RestartChangesNothing
  BY DEF Records, Registers, RestartChangesNothing
<1> QED
  BY <1>1, RecordsAgree, RegistersAreApplied, PTL

\* Every output that is on was scaled with the scale in force.
THEOREM OutputsKeepScale == CarefulSpec => []OutputsAreInScale
<1>1. Registers => OutputsAreInScale
  BY DEF Registers
<1> QED
  BY <1>1, RegistersAreApplied, PTL
=============================================================================
