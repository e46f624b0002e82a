---------------------------- MODULE HpsdrReader ----------------------------
(***************************************************************************)
(* The HPSDR adapter (adapters/hpsdr/adapter.py): _cc_loop repeats the     *)
(* control registers to the board over UDP, _read_loop collects the IQ the *)
(* board sends by itself, and the engine's threads post the frequency they *)
(* want.  Board and host share no connection: a register that is lost is   *)
(* repaired by the next round only.                                        *)
(*                                                                         *)
(* A packet of samples is known by the frequency the board was on when it  *)
(* took them; two packets make a block. Silence is counted in reads that   *)
(* timed out.                                                              *)
(***************************************************************************)
EXTENDS Integers, FiniteSetsExt

CONSTANTS Spots,         \* frequencies
          HalfWidth,     \* 0.40 * samp_rate of set_slice
          SilentAt,      \* timed-out reads in device_lost_after_s
          HpsdrAsks, HpsdrFaults    \* tunes; power cycles and lost packets (bounds)

ASSUME HpsdrAssumption ==
  /\ Spots \subseteq Nat \ {0} /\ Spots # {} /\ HalfWidth \in Nat
  /\ SilentAt \in Nat \ {0} /\ {HpsdrAsks, HpsdrFaults} \subseteq Nat

NoSpot == 0

VARIABLES
  board,       \* the board is powered
  boardNco,    \* where its oscillator is
  nco,         \* self.center_hz
  ncoTo,       \* self._retune_to
  ccAt,        \* where _cc_loop is
  freqReg,     \* cc_cycle[2]
  resettle,    \* self._resettle
  settling,    \* _read_loop discards: SETTLE_S is not over
  checked,     \* _read_loop has looked at the flag and waits for a packet
  partial,     \* the packet in buf, or NoSpot
  block,       \* the samples of the latest block
  seeded,      \* self._seeded
  pan, slice,  \* centre of the engine's first panadapter; its active slice
  silent,      \* timed-out reads since the board was heard
  boardLost,   \* self.device_lost
  hpsdrAsks, hpsdrFaults

ccVars    == <<nco, ccAt, freqReg>>
iqVars    == <<settling, checked, partial, block, silent, boardLost>>
askVars   == <<pan, slice, hpsdrAsks>>
hpsdrVars == <<board, boardNco, ccVars, ncoTo, resettle, iqVars, seeded, askVars,
               hpsdrFaults>>

HpsdrTypeOK ==
  /\ board \in BOOLEAN /\ boardNco \in Spots /\ nco \in Spots
  /\ ncoTo \in Spots \cup {NoSpot} /\ ccAt \in {"check", "taken", "send"}
  /\ freqReg \in Spots /\ resettle \in BOOLEAN /\ settling \in BOOLEAN
  /\ checked \in BOOLEAN /\ partial \in Spots \cup {NoSpot} /\ block \subseteq Spots
  /\ seeded \in BOOLEAN /\ pan \in Spots /\ slice \in Spots
  /\ silent \in 0..SilentAt /\ boardLost \in BOOLEAN
  /\ hpsdrAsks \in 0..HpsdrAsks /\ hpsdrFaults \in 0..HpsdrFaults

\* open() has latched the start frequency; the board may have missed it.
HpsdrInit ==
  /\ board = TRUE /\ boardNco \in Spots
  /\ nco = Min(Spots) /\ freqReg = nco /\ ncoTo = NoSpot /\ ccAt = "check"
  /\ resettle = FALSE /\ settling = TRUE /\ checked = FALSE
  /\ partial = NoSpot /\ block = {} /\ seeded = FALSE
  /\ pan \in Spots /\ slice = pan
  /\ silent = 0 /\ boardLost = FALSE /\ hpsdrAsks = 0 /\ hpsdrFaults = 0

-----------------------------------------------------------------------------
(* The engine's threads. *)

\* The client tunes; a scope that is centred by the radio takes the panadapter along.
\* Or it makes another slice active, whose panadapter is not the first.
HpsdrTune ==
  /\ hpsdrAsks < HpsdrAsks /\ hpsdrAsks' = hpsdrAsks + 1
  /\ slice' \in Spots \ {slice} /\ pan' \in {pan, slice'}
  /\ ncoTo' = IF slice' > nco + HalfWidth \/ nco > slice' + HalfWidth THEN slice' ELSE ncoTo
  /\ UNCHANGED <<board, boardNco, ccVars, resettle, iqVars, seeded, hpsdrFaults>>

\* get_iq of the stream loop: the first call after the start always tunes.
FrameTunes ==
  /\ ncoTo = NoSpot /\ (~seeded \/ pan # nco)
  /\ ncoTo' = pan /\ seeded' = TRUE
  /\ UNCHANGED <<board, boardNco, ccVars, resettle, iqVars, askVars, hpsdrFaults>>

\* get_audio of the audio thread: set_slice, for a slice out of reach of the centre.
AudioTunes ==
  /\ slice > nco + HalfWidth \/ nco > slice + HalfWidth
  /\ ncoTo' = slice
  /\ UNCHANGED <<board, boardNco, ccVars, resettle, iqVars, seeded, askVars, hpsdrFaults>>

-----------------------------------------------------------------------------
(* _cc_loop. *)

CcTake ==
  /\ ccAt = "check"
  /\ IF ncoTo = NoSpot THEN ccAt' = "send" /\ UNCHANGED nco
                       ELSE ccAt' = "taken" /\ nco' = ncoTo
  /\ UNCHANGED <<board, boardNco, ncoTo, freqReg, resettle, iqVars, seeded, askVars,
                 hpsdrFaults>>

CcLatch ==
  /\ ccAt = "taken" /\ ccAt' = "send"
  /\ ncoTo' = NoSpot /\ freqReg' = nco /\ resettle' = TRUE
  /\ UNCHANGED <<board, boardNco, nco, iqVars, seeded, askVars, hpsdrFaults>>

\* A packet with the frequency register goes out; the network or a board without power
\* may lose it.
CcSendBug ==
  /\ ccAt = "send" /\ ccAt' = "check"
  /\ IF board /\ resettle THEN boardNco' = freqReg ELSE UNCHANGED boardNco
  /\ UNCHANGED <<board, nco, ncoTo, freqReg, resettle, iqVars, seeded, askVars,
                 hpsdrFaults>>
CcSend ==
  /\ ccAt = "send" /\ ccAt' = "check"
  /\ IF board THEN boardNco' = freqReg ELSE UNCHANGED boardNco
  /\ UNCHANGED <<board, nco, ncoTo, freqReg, resettle, iqVars, seeded, askVars,
                 hpsdrFaults>>

PacketLost ==
  /\ ccAt = "send" /\ ccAt' = "check"
  /\ hpsdrFaults < HpsdrFaults /\ hpsdrFaults' = hpsdrFaults + 1
  /\ UNCHANGED <<board, boardNco, nco, ncoTo, freqReg, resettle, iqVars, seeded, askVars>>

-----------------------------------------------------------------------------
(* The board and _read_loop. *)

\* The board is switched off, or on again with its oscillator anywhere.
PowerCycle ==
  /\ hpsdrFaults < HpsdrFaults /\ hpsdrFaults' = hpsdrFaults + 1
  /\ board' = ~board /\ boardNco' \in Spots
  /\ UNCHANGED <<ccVars, ncoTo, resettle, iqVars, seeded, askVars>>

\* A retune has been latched: what was collected is dropped, and all that comes for a while.
ReadCheck ==
  /\ ~checked /\ checked' = TRUE /\ resettle' = FALSE
  /\ IF resettle THEN partial' = NoSpot /\ settling' = TRUE ELSE UNCHANGED <<partial, settling>>
  /\ UNCHANGED <<board, boardNco, ccVars, ncoTo, block, silent, boardLost, seeded,
                 askVars, hpsdrFaults>>

SettleEnds ==
  /\ settling /\ settling' = FALSE
  /\ UNCHANGED <<board, boardNco, ccVars, ncoTo, resettle, checked, partial, block,
                 silent, boardLost, seeded, askVars, hpsdrFaults>>

\* A packet: note_device_alive, then its samples, which fill buf or complete a block.
ReadPacket ==
  /\ checked /\ checked' = FALSE /\ board /\ silent' = 0
  /\ IF settling THEN UNCHANGED <<partial, block>>
     ELSE IF partial = NoSpot THEN partial' = boardNco /\ UNCHANGED block
     ELSE partial' = NoSpot /\ block' = {partial, boardNco}
  /\ UNCHANGED <<board, boardNco, ccVars, ncoTo, resettle, settling, boardLost, seeded,
                 askVars, hpsdrFaults>>

\* No packet: note_device_silent.
ReadTimeout ==
  /\ checked /\ checked' = FALSE /\ ~board
  /\ silent' = Min({silent + 1, SilentAt})
  /\ boardLost' = (boardLost \/ silent + 1 >= SilentAt)
  /\ UNCHANGED <<board, boardNco, ccVars, ncoTo, resettle, settling, partial, block,
                 seeded, askVars, hpsdrFaults>>

-----------------------------------------------------------------------------
CcLoop    == CcTake \/ CcLatch \/ CcSend \/ PacketLost
HpsdrRead == ReadCheck \/ ReadPacket \/ ReadTimeout

HpsdrNext == \/ HpsdrTune \/ FrameTunes \/ AudioTunes \/ CcLoop
             \/ PowerCycle \/ HpsdrRead \/ SettleEnds

\* The loops run, and the reader's settling time is over some day.
HpsdrSpec ==
  HpsdrInit /\ [][HpsdrNext]_hpsdrVars
  /\ WF_hpsdrVars(CcLoop) /\ WF_hpsdrVars(HpsdrRead) /\ WF_hpsdrVars(SettleEnds)
  /\ WF_hpsdrVars(FrameTunes)

-----------------------------------------------------------------------------
(* Properties. *)

\* A board is given up only after a silence of the whole threshold, counted from the last
\* packet; and a board that stays silent is given up.
LostAfterSilence == [][~boardLost /\ boardLost' => silent' = SilentAt]_hpsdrVars
SilenceReported == <>[](~board) => <>[]boardLost
=============================================================================
