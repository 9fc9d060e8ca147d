---------------------------- MODULE Calibration -----------------------------
(***************************************************************************)
(* The calibration record: its copy in the EEPROM, the server's cached     *)
(* copy (calib), and the registers and outputs of the DAC derived from it. *)
(* A set command builds a new record, writes it to the EEPROM, reads it    *)
(* and applies it.  The write and the read-back may fail, each on its own  *)
(* and after any part of the record: the handlers ask for neither result.  *)
(* Power may fail in between, and at any other time.                       *)
(*                                                                         *)
(* Values are integers: a voltage in units of 1 V / Full, a scale as it    *)
(* is.  The mode TRANSMISSION counts as ACQUISITION: the handlers of this  *)
(* module that ask for the mode refuse both.                               *)
(***************************************************************************)
EXTENDS Integers

CONSTANTS
    Full,         \* DAC_BASESCALE
    Settable(_),  \* the values clients give a field
    Amplitudes,   \* the amplitudes clients set
    Writes,       \* how far a write of the record comes ...
    Reads,        \* ... and a read
    FailsAgain    \* bound: whether it fails again when it has done harm

Kinds    == {"adc_fs", "adc_offs", "dac_fs", "dac_offs", "dac_lower", "dac_upper"}
Channels == {0, 1}
Field    == Kinds \X Channels

ASSUME ValuesAreIntegers ==
    /\ Full \in Nat \ {0}
    /\ \A f \in Field : Settable(f) \subseteq Int
    /\ Amplitudes \subseteq Nat

\* How far a write or a read of the record comes: to nothing, to the id and the
\* version, to the flags, to some of the values, to the end.
Ends    == -2 .. 12
Nothing == -2
Whole   == 12

ASSUME CutsAreEnds ==
    Writes \subseteq Ends /\ Reads \subseteq Ends /\ FailsAgain \in BOOLEAN

VARIABLES
    mode,      \* serverMode
    eeprom,    \* the record in the EEPROM
    cache,     \* calib
    writing,   \* a handler writes its record ...
    params,    \* ... calib_params
    fpga,      \* the DAC registers
    asked,     \* history: the amplitude a client asked for
    lost       \* history: the EEPROM has failed in a way that does harm

vars == <<mode, eeprom, cache, writing, params, fpga, asked, lost>>

-----------------------------------------------------------------------------
(* Records.                                                                *)

Default(f) == CASE f[1] \in {"adc_fs", "dac_fs"} -> 1
                [] f[1] = "dac_lower"            -> -Full
                [] f[1] = "dac_upper"            -> Full
                [] OTHER                         -> 0

Values == [f \in Field |-> Default(f)]

\* mutant: the defaults count as set
DefaultsAreSet == [daq |-> TRUE, flags |-> Field, val |-> Values]

\* daq: the id and the version are this server's
getDefaultCalib == [daq |-> TRUE, flags |-> {}, val |-> Values]

\* a value is used if it is flagged as set in a record of this server
calib_validate(rec) ==
    LET known == IF rec.daq THEN rec.flags ELSE {}
    IN  [daq   |-> TRUE,
         flags |-> known,
         val   |-> [f \in Field |-> IF f \in known THEN rec.val[f] ELSE Default(f)]]

\* mutant: the flag is forgotten
Unflagged(rec, f, v) == [rec EXCEPT !.val = [rec.val EXCEPT ![f] = v]]

\* calib_setADCOffset and its like
With(rec, f, v) ==
    [rec EXCEPT !.flags = rec.flags \union {f},
                !.val = [rec.val EXCEPT ![f] = v]]

\* where a field is in the record, as rp_calib_params_t lists them
Place(f) == CASE f[1] = "adc_fs"    -> 2 * f[2]
              [] f[1] = "adc_offs"  -> 2 * f[2] + 1
              [] f[1] = "dac_fs"    -> 2 * f[2] + 4
              [] f[1] = "dac_offs"  -> 2 * f[2] + 5
              [] f[1] = "dac_lower" -> 2 * f[2] + 8
              [] f[1] = "dac_upper" -> 2 * f[2] + 9

\* where a write or a read that ends early leaves new in the place of old
Torn(old, new, end) ==
    [daq   |-> IF end >= -1 THEN new.daq ELSE old.daq,
     flags |-> IF end >= 0 THEN new.flags ELSE old.flags,
     val   |-> [f \in Field |-> IF Place(f) < end THEN new.val[f] ELSE old.val[f]]]

-----------------------------------------------------------------------------
(* Registers.                                                              *)

InRange(x) == -Full <= x /\ x <= Full

Clipped(x) == IF x < -Full THEN -Full ELSE IF x > Full THEN Full ELSE x

getCalibDACScale(cal, c) == cal.val[<<"dac_fs", c>>]

\* of both channels the offset of the first
getCalibDACOffset(cal, c) == cal.val[<<"dac_offs", 0>>]

Limit(cal, kind, c) ==
    Clipped((cal.val[<<kind, c>>] + getCalibDACOffset(cal, c)) * getCalibDACScale(cal, c))

\* an offset out of range leaves the register as it is
Offset(regs, cal, c) ==
    LET offset == cal.val[<<"dac_offs", c>>] * getCalibDACScale(cal, c)
    IN  IF InRange(offset) THEN offset ELSE regs.offset[c]

\* mutant: the outputs go on
AppliedAlive(regs, cal) ==
    [offset    |-> [c \in Channels |-> Offset(regs, cal, c)],
     lower     |-> [c \in Channels |-> Limit(cal, "dac_lower", c)],
     upper     |-> [c \in Channels |-> Limit(cal, "dac_upper", c)],
     amplitude |-> regs.amplitude]

\* calib_apply: at its end all outputs are off
Applied(regs, cal) ==
    [offset    |-> [c \in Channels |-> Offset(regs, cal, c)],
     lower     |-> [c \in Channels |-> Limit(cal, "dac_lower", c)],
     upper     |-> [c \in Channels |-> Limit(cal, "dac_upper", c)],
     amplitude |-> [c \in Channels |-> 0]]

Zero  == [c \in Channels |-> 0]
Blank == [offset |-> Zero, lower |-> Zero, upper |-> Zero, amplitude |-> Zero]

-----------------------------------------------------------------------------
(* Starting up.                                                            *)

\* calib before it is read for the first time
Static == [daq |-> FALSE, flags |-> {}, val |-> [f \in Field |-> 0]]

\* nothing but defaults where no value is flagged as set
Clean(rec) == {f \in Field : rec.val[f] # Default(f)} \subseteq rec.flags

\* init of the library on an EEPROM rec, of which it reads got, and registers regs
Boots(rec, got, regs) ==
    /\ mode' = "CONFIGURATION"
    /\ eeprom' = rec
    /\ cache' = calib_validate(Torn(Static, rec, got))
    /\ writing' = FALSE /\ params' = cache'
    /\ fpga' = Applied(regs, cache')
    /\ asked' = Zero

\* the EEPROM at the next start, if the handler got as far as end
Left(end) == IF writing THEN Torn(eeprom, params, end) ELSE eeprom

\* The EEPROM holds a record of this server, or whatever was there before: here
\* every value of that is out of range.
Unknown(flags) == [daq |-> FALSE, flags |-> flags, val |-> [f \in Field |-> 2 * Full]]

Init ==
    /\ mode = "CONFIGURATION"
    /\ eeprom \in {getDefaultCalib, Unknown({}), Unknown(Field)}
    /\ cache = calib_validate(eeprom)
    /\ writing = FALSE /\ params = cache
    /\ fpga = Applied(Blank, cache)
    /\ asked = Zero
    /\ lost = FALSE

\* power fails, after a part of the record was written
PowerCycle(end, got) ==
    /\ Boots(Left(end), got, Blank)
    /\ lost' = (got # Whole)

\* the process is restarted: the registers keep an offset that is not replaced
RestartServer(end, got) ==
    /\ Boots(Left(end), got, fpga)
    /\ lost' = (lost \/ got # Whole)

-----------------------------------------------------------------------------
(* The handlers.                                                           *)

RP_SetServerMode ==
    /\ ~writing
    /\ mode' \in {"CONFIGURATION", "ACQUISITION"} \ {mode}
    /\ UNCHANGED <<eeprom, cache, writing, params, fpga, asked, lost>>

StartsWriting(rec) ==
    /\ ~writing
    /\ writing' = TRUE /\ params' = rec
    /\ UNCHANGED <<mode, eeprom, cache, fpga, asked, lost>>

\* only an offset is checked against the scale, not a scale against the offset
RP_Calib_Set(f, v) ==
    /\ mode = "CONFIGURATION"
    /\ f[1] = "dac_offs" => InRange(v * getCalibDACScale(cache, f[2]))
    /\ StartsWriting(With(cache, f, v))

\* in every mode
RP_ResetCalibration == StartsWriting(getDefaultCalib)

\* A command ends and no harm is done: it went well, or nothing was written or
\* read; or, over a clean record of this server, nothing was written, or a set,
\* whose read-back has found what was written.
Harmless(end, got) ==
    \/ end = Whole /\ got = Whole
    \/ end = Nothing /\ got = Nothing
    \/ /\ eeprom.daq /\ Clean(eeprom)
       /\ end = Nothing \/ (got = Whole /\ params # getDefaultCalib)

\* mutant: the handler keeps what it has written, in place of what it reads
KeepsWritten(end, got) ==
    /\ writing /\ writing' = FALSE
    /\ eeprom' = Torn(eeprom, params, end)
    /\ cache' = params /\ params' = cache'
    /\ fpga' = Applied(fpga, cache')
    /\ asked' = Zero
    /\ lost' = (lost \/ ~Harmless(end, got))
    /\ UNCHANGED mode

\* calib_WriteParams, calib_Init, calib_apply, whatever the first two return: the
\* record is read into calib, and it is not validated.  A reset that went well
\* mends what was lost.
WriteAndApply(end, got) ==
    /\ writing /\ writing' = FALSE
    /\ eeprom' = Torn(eeprom, params, end)
    /\ cache' = Torn(cache, eeprom', got) /\ params' = cache'
    /\ fpga' = Applied(fpga, cache')
    /\ asked' = Zero
    /\ lost' = IF params = getDefaultCalib /\ end = Whole /\ got = Whole THEN FALSE
               ELSE lost \/ ~Harmless(end, got)
    /\ UNCHANGED mode

RP_DAC_SetAmplitude(c, a) ==
    LET scaled == a * getCalibDACScale(cache, c)
    IN  /\ ~writing
        /\ 0 <= scaled /\ scaled <= Full
        /\ fpga' = [fpga EXCEPT !.amplitude = [fpga.amplitude EXCEPT ![c] = scaled]]
        /\ asked' = [asked EXCEPT ![c] = a]
        /\ UNCHANGED <<mode, eeprom, cache, writing, params, lost>>

\* by the threads that end a sequence, a connection or the server: at any time
stopTx ==
    /\ fpga' = [fpga EXCEPT !.amplitude = Zero]
    /\ asked' = Zero
    /\ UNCHANGED <<mode, eeprom, cache, writing, params, lost>>

Sets(f) == \E v \in Settable(f) : RP_Calib_Set(f, v)

Commands ==
    \/ RP_SetServerMode
    \/ RP_ResetCalibration
    \/ stopTx
    \/ \E c \in Channels, a \in Amplitudes : RP_DAC_SetAmplitude(c, a)

\* what comes of a record that a handler builds, if it comes as far as end
Outcomes(end) ==
    \E got \in Reads :
        /\ (lost /\ ~FailsAgain) => (end = Whole /\ got = Whole)
        /\ \/ WriteAndApply(end, got)
           \/ PowerCycle(end, got)
           \/ RestartServer(end, got)

Next ==
    \/ Commands
    \/ \E f \in Field : Sets(f)
    \/ \E end \in Writes : Outcomes(end)

Spec == Init /\ [][Next]_vars

\* A client whose scales keep the offsets in range, ...
KeepsOffset(f, v) ==
    f[1] = "dac_fs" => InRange(cache.val[<<"dac_offs", f[2]>>] * v)

\* ... and a write that is cut off, by the power or by the EEPROM, neither over
\* unknown data nor after a reset was cut off.
MayBeCut == writing => (eeprom.daq /\ Clean(eeprom))

CarefulNext ==
    \/ Commands
    \/ \E f \in Field : \E v \in Settable(f) : KeepsOffset(f, v) /\ RP_Calib_Set(f, v)
    \/ \E end \in Writes : (end \in {Nothing, Whole} \/ MayBeCut) /\ Outcomes(end)

CarefulSpec == Init /\ [][CarefulNext]_vars

-----------------------------------------------------------------------------
(* Properties.                                                             *)

Record == [daq : BOOLEAN, flags : SUBSET Field, val : [Field -> Int]]

\* The values each variable takes: no register leaves the range of the DAC.
TypeOK ==
    /\ mode \in {"CONFIGURATION", "ACQUISITION"}
    /\ eeprom \in Record /\ cache \in Record /\ params \in Record
    /\ writing \in BOOLEAN /\ lost \in BOOLEAN
    /\ fpga \in [offset : [Channels -> -Full .. Full],
                 lower  : [Channels -> -Full .. Full],
                 upper  : [Channels -> -Full .. Full],
                 amplitude : [Channels -> 0 .. Full]]
    /\ asked \in [Channels -> Nat]

Store == INSTANCE CalibrationStore
    WITH stored <- calib_validate(eeprom).val, request <- params.val

\* A set or reset command replaces what the next start will read at once or
\* not at all, also when the write is cut off in the middle, by the power or by
\* the EEPROM: no other value changes, and a value that was not set before stays
\* a default.  Only after a failure that does harm, as a read-back that fails
\* after a good write, may a later set revert what was stored, until a reset or
\* a power cycle goes well; and the failing command itself is still atomic.
StoresAtomically == Store!Spec

Settings(regs) == <<regs.offset, regs.lower, regs.upper>>

\* Between two commands a restart changes nothing: the cached values are those
\* the next start reads, and the DAC is set as that start will set it.  It holds
\* although the handlers ignore what the EEPROM returns: a set that fails to be
\* written, or is written in part, leaves what its read-back finds.
RestartChangesNothing ==
    ~writing /\ ~lost =>
        /\ cache = calib_validate(eeprom)
        /\ Settings(fpga) = Settings(Applied(Blank, cache))

\* An output that is on was scaled with the scale that is in force: no amplitude
\* survives the change of a scale.
OutputsAreInScale ==
    \A c \in Channels : fpga.amplitude[c] = asked[c] * getCalibDACScale(cache, c)

\* The same after every failure of the EEPROM.  The code does not have it: a
\* read-back that fails after a good write leaves the old record in the cache and
\* in the registers, and the next set writes the old values back.
RestartNeverChanges ==
    ~writing =>
        /\ cache = calib_validate(eeprom)
        /\ Settings(fpga) = Settings(Applied(Blank, cache))

\* The largest signal that passes the limiter, less the offset added to it, is
\* no more than the upper limit of the channel.
LimitBoundsVoltage ==
    \A c \in Channels :
        fpga.upper[c] - fpga.offset[c]
            <= cache.val[<<"dac_upper", c>>] * getCalibDACScale(cache, c)
=============================================================================
