--------------------------- MODULE ConnFlowProofs ---------------------------
(***************************************************************************)
(* Flow-control credit, for any number of streams, any limits and windows  *)
(* (within WindowAssumption) and any number of losses.  The theorems rest  *)
(* on the inductive invariant CreditInv of ConnFlow.  Then the credit for  *)
(* streams, from LimitsInv of StreamLimits.                                *)
(***************************************************************************)
EXTENDS ConnFlow, StreamLimits, FiniteSetTheorems, WellFoundedInduction, TLAPS

\* The initial controllers, unfolded once for the proofs below.
LEMMA InitFlows ==
    /\ InitStreamFlow \in FC!FlowControlType
    /\ InitStreamFlow.consumed = 0
    /\ InitStreamFlow.max_data = InitMaxStreamData
    /\ InitStreamFlow.max_window = MaxStreamWindow
    /\ InitStreamFlow.last_update = FALSE
    /\ InitConnFlow \in FC!FlowControlType
    /\ InitConnFlow.consumed = 0
    /\ InitConnFlow.max_data = InitMaxData
    /\ InitConnFlow.max_window = MaxConnWindow
  BY ConstantsAssumption
  DEF InitStreamFlow, InitConnFlow, FC!new, FC!Smaller, FC!FlowControlType

\* FlowControl::autotune_window keeps everything but the window, which it never
\* narrows and never raises above the cap.
LEMMA AutotuneWindow ==
    ASSUME NEW fc \in FC!FlowControlType, NEW recent \in BOOLEAN,
           fc.window <= fc.max_window
    PROVE  LET t == FC!autotune_window(fc, recent)
           IN  /\ t \in FC!FlowControlType
               /\ t.consumed = fc.consumed /\ t.max_data = fc.max_data
               /\ t.max_window = fc.max_window /\ t.last_update = fc.last_update
               /\ fc.window <= t.window /\ t.window <= t.max_window
  BY DEF FC!autotune_window, FC!FlowControlType, FC!Smaller,
         FC!WINDOW_INCREASE_FACTOR

\* FlowControl::update_max_data commits consumed + window.
LEMMA UpdateMaxData ==
    ASSUME NEW fc \in FC!FlowControlType
    PROVE  LET u == FC!update_max_data(fc)
           IN  /\ u \in FC!FlowControlType
               /\ u.consumed = fc.consumed /\ u.window = fc.window
               /\ u.max_window = fc.max_window /\ u.last_update
               /\ u.max_data = fc.consumed + fc.window
               /\ FC!max_data_next(fc) = fc.consumed + fc.window
               /\ FC!max_data_next(fc) \in Nat
<1> DEFINE u == FC!update_max_data(fc)
<1>1. /\ u.consumed = fc.consumed /\ u.window = fc.window
      /\ u.max_window = fc.max_window
      /\ u.max_data = fc.consumed + fc.window
  BY DEF FC!update_max_data, FC!FlowControlType, FC!max_data_next
<1>2. u.last_update
  BY Zenon DEF FC!update_max_data, FC!FlowControlType
<1>3. FC!max_data_next(fc) = fc.consumed + fc.window /\ FC!max_data_next(fc) \in Nat
  BY DEF FC!FlowControlType, FC!max_data_next
<1>4. u \in FC!FlowControlType
  BY <1>3, Zenon DEF FC!update_max_data, FC!FlowControlType
<1> QED
  BY <1>1, <1>2, <1>3, <1>4

\* FlowControl::add_consumed only adds.
LEMMA AddConsumed ==
    ASSUME NEW fc \in FC!FlowControlType, NEW n \in Nat
    PROVE  LET a == FC!add_consumed(fc, n)
           IN  /\ a \in FC!FlowControlType
               /\ a.consumed = fc.consumed + n /\ a.max_data = fc.max_data
               /\ a.window = fc.window /\ a.max_window = fc.max_window
               /\ a.last_update = fc.last_update
  BY DEF FC!add_consumed, FC!FlowControlType

\* FlowControl::ensure_window_lower_bound only widens.
LEMMA EnsureWindow ==
    ASSUME NEW fc \in FC!FlowControlType, NEW w \in Nat
    PROVE  LET e == FC!ensure_window_lower_bound(fc, w)
           IN  /\ e \in FC!FlowControlType
               /\ e.consumed = fc.consumed /\ e.max_data = fc.max_data
               /\ e.max_window = fc.max_window /\ e.last_update = fc.last_update
               /\ e.window \in {fc.window, w} /\ fc.window <= e.window
  BY DEF FC!ensure_window_lower_bound, FC!FlowControlType, FC!Larger

\* The lower bound a stream's window puts on the connection's is within the cap.
LEMMA ConnWindowBound ==
    ASSUME NEW w \in Nat, w <= MaxStreamWindow
    PROVE  ConnWindowFor(w) \in Nat /\ ConnWindowFor(w) <= MaxConnWindow
  BY ConstantsAssumption, WindowAssumption DEF ConnWindowFor

LEMMA LargerNat ==
    ASSUME NEW a \in Int, NEW b \in Int
    PROVE  /\ FC!Larger(a, b) \in {a, b}
           /\ FC!Larger(a, b) >= a /\ FC!Larger(a, b) >= b
  BY DEF FC!Larger

LEMMA CreditInit == Init => CreditInv
<1> SUFFICES ASSUME Init PROVE CreditInv
  OBVIOUS
<1>1. TypeOK
  BY ConstantsAssumption, InitFlows DEF Init, TypeOK
<1>2. StreamCredit /\ ConnCredit
  BY ConstantsAssumption, InitFlows DEF Init, StreamCredit, ConnCredit
<1>3. WindowsWithinCaps
  BY InitFlows, WindowAssumption DEF Init, WindowsWithinCaps
<1>4. FramesWithinLimits /\ UpdateDue
  BY InitFlows DEF Init, FramesWithinLimits, UpdateDue
<1> QED
  BY <1>1, <1>2, <1>3, <1>4 DEF CreditInv

-----------------------------------------------------------------------------
(* The actions that touch a controller, one lemma each.                      *)

LEMMA RecvStreamStep ==
    ASSUME CreditInv, NEW s \in Streams, NEW max_off \in 1..AppLen[s],
           NEW c \in 0..AppLen[s], RecvStream(s, max_off, c)
    PROVE  CreditInv'
<1> USE DEF connVars, recvVars, sendVars, netVars
<1> DEFINE delta == FC!Larger(max_off - received[s], 0)
           fc == FC!add_consumed(flow_control, delta)
<1>1. delta \in Nat /\ received[s] \in Nat
  BY DEF CreditInv, TypeOK, FC!Larger
<1>2. /\ fc \in FC!FlowControlType /\ fc.max_data = flow_control.max_data
      /\ fc.window = flow_control.window /\ fc.max_window = flow_control.max_window
  BY <1>1, AddConsumed DEF CreditInv, TypeOK
<1> HIDE DEF delta, fc
<1>3. CASE rx_data + delta > flow_control.max_data \/ max_off > sflow[s].max_data
  BY <1>3, ConstantsAssumption
  DEF CreditInv, TypeOK, StreamCredit, ConnCredit, WindowsWithinCaps,
      FramesWithinLimits, UpdateDue, RecvStream, delta
<1>4. CASE ~(rx_data + delta > flow_control.max_data \/ max_off > sflow[s].max_data)
  <2>1. /\ c \in ready[s]..FC!Larger(received[s], max_off)
        /\ received' = [received EXCEPT ![s] = FC!Larger(@, max_off)]
        /\ ready' = [ready EXCEPT ![s] = c]
        /\ rx_data' = rx_data + delta
        /\ flow_control' \in {flow_control, fc}
        /\ max_off <= emit_off[s]
        /\ UNCHANGED <<empty_charged, off, conn_error, sflow, drain, reset, almost_full_streams,
                       stopped, sendVars, netVars>>
    BY <1>4, ConstantsAssumption DEF RecvStream, delta, fc, CreditInv, TypeOK
  <2>2. almost_full' \in BOOLEAN
    BY <1>4, Zenon DEF RecvStream, delta, CreditInv, TypeOK
  <2>3. TypeOK'
    BY <1>1, <1>2, <2>1, <2>2, ConstantsAssumption DEF CreditInv, TypeOK, FC!Larger
  <2>4. StreamCredit'
    BY <1>1, <2>1, ConstantsAssumption DEF CreditInv, TypeOK, StreamCredit, FC!Larger
  <2>5. ConnCredit'
    BY <1>1, <1>2, <1>4, <2>1 DEF CreditInv, TypeOK, ConnCredit, FC!FlowControlType
  <2>6. WindowsWithinCaps' /\ FramesWithinLimits' /\ UpdateDue'
    BY <1>2, <2>1 DEF CreditInv, WindowsWithinCaps, FramesWithinLimits, UpdateDue
  <2> QED
    BY <2>3, <2>4, <2>5, <2>6 DEF CreditInv
<1> QED
  BY <1>3, <1>4

LEMMA RecvEmptyStreamStep ==
    ASSUME CreditInv, NEW s \in Streams, NEW max_off \in 1..AppLen[s],
           RecvEmptyStream(s, max_off)
    PROVE  CreditInv'
<1> USE DEF connVars, recvVars, sendVars, netVars
<1> DEFINE delta == FC!Larger(max_off - received[s], 0)
           fc == FC!add_consumed(flow_control, delta)
<1>1. delta \in Nat
  BY DEF CreditInv, TypeOK, FC!Larger
<1>2. /\ fc \in FC!FlowControlType /\ fc.max_data = flow_control.max_data
      /\ fc.window = flow_control.window /\ fc.max_window = flow_control.max_window
  BY <1>1, AddConsumed DEF CreditInv, TypeOK
<1> HIDE DEF delta, fc
<1> DEFINE Charged == /\ flow_control' \in {flow_control, fc}
                      /\ \/ rx_data' = rx_data
                         \/ rx_data' = rx_data + delta /\ rx_data' <= flow_control.max_data
                      /\ empty_charged' \in Nat
                      /\ conn_error' \in {conn_error, "FlowControl"}
                      /\ UNCHANGED <<recvVars, sendVars, netVars>>
<1>3. Charged
  <2>0. flow_control.max_data \in Nat /\ rx_data \in Nat /\ empty_charged \in Nat
    BY DEF CreditInv, TypeOK, FC!FlowControlType
  <2>1. CASE rx_data + delta > flow_control.max_data \/ max_off > sflow[s].max_data
    BY <2>0, <2>1 DEF RecvEmptyStream, delta
  <2>2. CASE ~(rx_data + delta > flow_control.max_data \/ max_off > sflow[s].max_data)
    <3>1. /\ rx_data' = rx_data + delta /\ conn_error' = conn_error
          /\ empty_charged' = empty_charged + delta
          /\ flow_control' = fc \/ flow_control' = flow_control
          /\ UNCHANGED <<recvVars, sendVars, netVars>>
      BY <2>2 DEF RecvEmptyStream, delta, fc
    <3> QED
      BY <1>1, <2>0, <2>2, <3>1
  <2> QED
    BY <2>1, <2>2
<1>4. almost_full' \in BOOLEAN
  BY Zenon DEF RecvEmptyStream, CreditInv, TypeOK
<1>5. TypeOK'
  BY <1>1, <1>2, <1>3, <1>4 DEF CreditInv, TypeOK
<1>6. StreamCredit' /\ ConnCredit'
  BY <1>1, <1>2, <1>3 DEF CreditInv, TypeOK, StreamCredit, ConnCredit, FC!FlowControlType
<1>7. WindowsWithinCaps' /\ FramesWithinLimits' /\ UpdateDue'
  BY <1>2, <1>3 DEF CreditInv, WindowsWithinCaps, FramesWithinLimits, UpdateDue
<1> QED
  BY <1>5, <1>6, <1>7 DEF CreditInv

LEMMA StreamRecvStep ==
    ASSUME CreditInv, NEW s \in Streams, NEW n \in 1..AppLen[s], stream_recv(s, n)
    PROVE  CreditInv'
<1> USE DEF connVars, recvVars, sendVars, netVars
<1> DEFINE fc == FC!add_consumed(flow_control, n)
           sf == FC!add_consumed(sflow[s], n)
<1>1. n \in Nat /\ flow_control \in FC!FlowControlType /\ sflow[s] \in FC!FlowControlType
  BY ConstantsAssumption DEF CreditInv, TypeOK
<1>2. /\ fc \in FC!FlowControlType /\ fc.max_data = flow_control.max_data
      /\ fc.window = flow_control.window /\ fc.max_window = flow_control.max_window
  BY <1>1, AddConsumed
<1>3. /\ sf \in FC!FlowControlType /\ sf.consumed = sflow[s].consumed + n
      /\ sf.max_data = sflow[s].max_data
      /\ sf.window = sflow[s].window /\ sf.max_window = sflow[s].max_window
      /\ sf.last_update = sflow[s].last_update
  BY <1>1, AddConsumed
<1>4. FC!should_update_max_data(sf) => sf.max_data <= FC!max_data_next(sf)
  BY <1>3 DEF FC!should_update_max_data, FC!max_data_next, FC!FlowControlType
<1> HIDE DEF fc, sf
<1>5. /\ off[s] + n <= ready[s]
      /\ off' = [off EXCEPT ![s] = @ + n]
      /\ flow_control' = fc
      /\ sflow' = [sflow EXCEPT ![s] = sf]
      /\ almost_full_streams' \in SUBSET Streams
      /\ \A t \in Streams \ {s} : t \in almost_full_streams' <=> t \in almost_full_streams
      /\ s \in almost_full_streams' =>
            s \in almost_full_streams \/ FC!should_update_max_data(sf)
      /\ UNCHANGED <<rx_data, empty_charged, received, ready, drain, reset, stopped, sendVars,
                     netVars, conn_error>>
  BY DEF stream_recv, fc, sf, CreditInv, TypeOK
<1>6. almost_full' \in BOOLEAN
  BY Zenon DEF stream_recv, CreditInv, TypeOK
<1>7. TypeOK'
  BY <1>1, <1>2, <1>3, <1>5, <1>6 DEF CreditInv, TypeOK
<1>8. StreamCredit' /\ ConnCredit'
  BY <1>1, <1>2, <1>3, <1>5
  DEF CreditInv, TypeOK, StreamCredit, ConnCredit, FC!FlowControlType
<1>9. WindowsWithinCaps' /\ FramesWithinLimits'
  BY <1>2, <1>3, <1>5 DEF CreditInv, TypeOK, WindowsWithinCaps, FramesWithinLimits
<1>10. UpdateDue'
  <2> SUFFICES ASSUME NEW t \in Streams
               PROVE  /\ t \in almost_full_streams' \/ sflow'[t].last_update
                            => sflow'[t].max_data <= FC!max_data_next(sflow'[t])
                      /\ max_stream_data_frames'[t] # {} => sflow'[t].last_update
    BY DEF UpdateDue
  <2>1. CASE t # s
    BY <2>1, <1>5 DEF CreditInv, TypeOK, UpdateDue
  <2>2. CASE t = s
    <3>1. sflow'[t] = sf
      BY <2>2, <1>5 DEF CreditInv, TypeOK
    <3>2. sflow[s].max_data <= FC!max_data_next(sflow[s])
            => sf.max_data <= FC!max_data_next(sf)
      BY <1>1, <1>3 DEF FC!max_data_next, FC!FlowControlType
    <3> QED
      BY <2>2, <3>1, <3>2, <1>3, <1>4, <1>5 DEF CreditInv, UpdateDue
  <2> QED
    BY <2>1, <2>2
<1> QED
  BY <1>7, <1>8, <1>9, <1>10 DEF CreditInv

LEMMA SendMaxStreamDataStep ==
    ASSUME CreditInv, NEW s \in Streams, NEW recent \in BOOLEAN, NEW fits \in BOOLEAN,
           SendMaxStreamData(s, recent, fits)
    PROVE  CreditInv'
<1> USE DEF connVars, recvVars, sendVars, netVars
<1> DEFINE sf == FC!autotune_window(sflow[s], recent)
           u == FC!update_max_data(sf)
           w == ConnWindowFor(sf.window)
           fc == FC!ensure_window_lower_bound(flow_control, w)
<1>1. flow_control \in FC!FlowControlType /\ sflow[s] \in FC!FlowControlType
  BY DEF CreditInv, TypeOK
<1>2. /\ sf \in FC!FlowControlType
      /\ sf.consumed = sflow[s].consumed /\ sf.max_data = sflow[s].max_data
      /\ sf.max_window = MaxStreamWindow /\ sf.last_update = sflow[s].last_update
      /\ sflow[s].window <= sf.window /\ sf.window <= MaxStreamWindow
  BY <1>1, AutotuneWindow DEF CreditInv, WindowsWithinCaps
<1> HIDE DEF sf
<1>3. /\ u \in FC!FlowControlType /\ u.consumed = sf.consumed /\ u.window = sf.window
      /\ u.max_window = MaxStreamWindow /\ u.last_update
      /\ u.max_data = FC!max_data_next(sf) /\ FC!max_data_next(sf) \in Nat
      /\ FC!max_data_next(sf) = sf.consumed + sf.window
  BY <1>2, UpdateMaxData
<1>4. w \in Nat /\ w <= MaxConnWindow
  BY <1>2, ConnWindowBound DEF FC!FlowControlType
<1> HIDE DEF w
<1>5. /\ fc \in FC!FlowControlType /\ fc.consumed = flow_control.consumed
      /\ fc.max_data = flow_control.max_data /\ fc.max_window = flow_control.max_window
      /\ fc.window \in {flow_control.window, w}
  BY <1>1, <1>4, EnsureWindow
<1> HIDE DEF u, fc
<1>6. sflow[s].max_data <= sf.consumed + sf.window
  <2>1. sflow[s].max_data <= FC!max_data_next(sflow[s])
    BY DEF CreditInv, UpdateDue, SendMaxStreamData
  <2> QED
    BY <1>1, <1>2, <2>1 DEF FC!max_data_next, FC!FlowControlType
<1>7. CASE fits
  <2>1. /\ max_stream_data_frames' =
              [max_stream_data_frames EXCEPT ![s] = @ \cup {FC!max_data_next(sf)}]
        /\ sflow' = [sflow EXCEPT ![s] = u]
        /\ almost_full_streams' = almost_full_streams \ {s}
        /\ flow_control' = fc
        /\ almost_full' = TRUE
        /\ UNCHANGED <<rx_data, empty_charged, received, ready, off, drain, reset, stopped,
                       sendVars, max_data_frames, reset_frames, stop_frames,
                       losses, conn_error>>
    BY <1>7 DEF SendMaxStreamData, sf, u, w, fc
  <2>2. TypeOK'
    BY <1>3, <1>5, <2>1 DEF CreditInv, TypeOK
  <2>3. StreamCredit'
    BY <1>1, <1>2, <1>3, <1>6, <2>1
    DEF CreditInv, TypeOK, StreamCredit, FC!FlowControlType
  <2>4. ConnCredit'
    BY <1>5, <2>1 DEF CreditInv, ConnCredit
  <2>5. WindowsWithinCaps'
    BY <1>2, <1>3, <1>4, <1>5, <2>1 DEF CreditInv, TypeOK, WindowsWithinCaps
  <2>6. FramesWithinLimits'
    BY <1>1, <1>2, <1>3, <1>5, <1>6, <2>1
    DEF CreditInv, TypeOK, FramesWithinLimits, FC!FlowControlType
  <2>7. UpdateDue'
    <3> SUFFICES ASSUME NEW t \in Streams
                 PROVE  /\ t \in almost_full_streams' \/ sflow'[t].last_update
                              => sflow'[t].max_data <= FC!max_data_next(sflow'[t])
                        /\ max_stream_data_frames'[t] # {} => sflow'[t].last_update
      BY DEF UpdateDue
    <3>1. CASE t # s
      BY <3>1, <2>1 DEF CreditInv, TypeOK, UpdateDue
    <3>2. CASE t = s
      <4>1. sflow'[t] = u
        BY <3>2, <2>1 DEF CreditInv, TypeOK
      <4>2. u.max_data <= FC!max_data_next(u)
        BY <1>2, <1>3 DEF FC!max_data_next, FC!FlowControlType
      <4> QED
        BY <1>3, <4>1, <4>2
    <3> QED
      BY <3>1, <3>2
  <2> QED
    BY <2>2, <2>3, <2>4, <2>5, <2>6, <2>7 DEF CreditInv
<1>8. CASE ~fits
  <2>1. /\ sflow' = [sflow EXCEPT ![s] = sf]
        /\ UNCHANGED <<flow_control, almost_full, rx_data, empty_charged, received, ready, off,
                       drain, reset, stopped, almost_full_streams, sendVars,
                       netVars, conn_error>>
    BY <1>8 DEF SendMaxStreamData, sf
  <2>2. TypeOK'
    BY <1>2, <2>1 DEF CreditInv, TypeOK
  <2>3. StreamCredit' /\ ConnCredit'
    BY <1>2, <2>1 DEF CreditInv, TypeOK, StreamCredit, ConnCredit
  <2>4. WindowsWithinCaps' /\ FramesWithinLimits'
    BY <1>2, <2>1 DEF CreditInv, TypeOK, WindowsWithinCaps, FramesWithinLimits
  <2>5. UpdateDue'
    <3>1. sf.max_data <= FC!max_data_next(sf)
      BY <1>2, <1>6 DEF FC!max_data_next
    <3> QED
      BY <1>2, <2>1, <3>1 DEF CreditInv, TypeOK, UpdateDue
  <2> QED
    BY <2>2, <2>3, <2>4, <2>5 DEF CreditInv
<1> QED
  BY <1>7, <1>8

LEMMA SendMaxDataStep ==
    ASSUME CreditInv, NEW recent \in BOOLEAN, NEW fits \in BOOLEAN,
           SendMaxData(recent, fits)
    PROVE  CreditInv'
<1> USE DEF connVars, recvVars, sendVars, netVars
<1> DEFINE fc == FC!autotune_window(flow_control, recent)
           u == FC!update_max_data(fc)
<1>1. flow_control \in FC!FlowControlType
  BY DEF CreditInv, TypeOK
<1>2. /\ fc \in FC!FlowControlType
      /\ fc.consumed = flow_control.consumed /\ fc.max_data = flow_control.max_data
      /\ fc.max_window = MaxConnWindow
      /\ flow_control.window <= fc.window /\ fc.window <= MaxConnWindow
  BY <1>1, AutotuneWindow DEF CreditInv, WindowsWithinCaps
<1> HIDE DEF fc
<1>3. /\ u \in FC!FlowControlType /\ u.window = fc.window
      /\ u.max_window = MaxConnWindow /\ u.max_data = FC!max_data_next(fc)
      /\ FC!max_data_next(fc) \in Nat
      /\ FC!max_data_next(fc) = fc.consumed + fc.window
  BY <1>2, UpdateMaxData
<1> HIDE DEF u
<1>4. flow_control.max_data < FC!max_data_next(fc)
  <2>1. flow_control.max_data < FC!max_data_next(flow_control)
    BY DEF SendMaxData
  <2> QED
    BY <1>1, <1>2, <1>3, <2>1 DEF FC!max_data_next, FC!FlowControlType
<1>5. CASE fits
  <2>1. /\ max_data_frames' = max_data_frames \cup {FC!max_data_next(fc)}
        /\ flow_control' = u
        /\ almost_full' = FALSE
        /\ UNCHANGED <<rx_data, empty_charged, recvVars, sendVars, max_stream_data_frames,
                       reset_frames, stop_frames, losses, conn_error>>
    BY <1>5 DEF SendMaxData, fc, u
  <2>2. TypeOK'
    BY <1>3, <2>1 DEF CreditInv, TypeOK
  <2>3. StreamCredit' /\ UpdateDue'
    BY <2>1 DEF CreditInv, StreamCredit, UpdateDue
  <2>4. ConnCredit' /\ FramesWithinLimits'
    BY <1>1, <1>3, <1>4, <2>1
    DEF CreditInv, TypeOK, ConnCredit, FramesWithinLimits, FC!FlowControlType
  <2>5. WindowsWithinCaps'
    BY <1>2, <1>3, <2>1 DEF CreditInv, WindowsWithinCaps
  <2> QED
    BY <2>2, <2>3, <2>4, <2>5 DEF CreditInv
<1>6. CASE ~fits
  <2>1. /\ flow_control' = fc
        /\ UNCHANGED <<rx_data, empty_charged, almost_full, recvVars, sendVars, netVars, conn_error>>
    BY <1>6 DEF SendMaxData, fc
  <2> QED
    BY <1>2, <2>1 DEF CreditInv, TypeOK, StreamCredit, ConnCredit, WindowsWithinCaps,
                      FramesWithinLimits, UpdateDue
<1> QED
  BY <1>5, <1>6

-----------------------------------------------------------------------------
(* One step keeps the invariant; the remaining actions move credit and frames *)
(* without touching a controller.                                            *)
LEMMA CreditStep == CreditInv /\ [Next]_vars => CreditInv'
<1> SUFFICES ASSUME CreditInv, [Next]_vars PROVE CreditInv'
  OBVIOUS
<1> USE DEF connVars, recvVars, sendVars, netVars
<1>1. ASSUME NEW s \in Streams, NEW n \in 1..AppLen[s], stream_send(s, n)
      PROVE  CreditInv'
  BY <1>1
  DEF CreditInv, TypeOK, StreamCredit, ConnCredit, WindowsWithinCaps, FramesWithinLimits, UpdateDue,
      stream_send
<1>2. ASSUME NEW s \in Streams, NEW n \in 1..AppLen[s], emit(s, n)
      PROVE  CreditInv'
  BY <1>2
  DEF CreditInv, TypeOK, StreamCredit, ConnCredit, WindowsWithinCaps, FramesWithinLimits, UpdateDue,
      emit
<1>3. ASSUME NEW s \in Streams, stream_shutdown_write(s)
      PROVE  CreditInv'
  <2>1. TypeOK'
    BY <1>3 DEF CreditInv, TypeOK, StreamCredit, stream_shutdown_write, ResetSend, FC!Larger
  <2>2. StreamCredit' /\ ConnCredit'
    BY <1>3 DEF CreditInv, TypeOK, StreamCredit, ConnCredit, stream_shutdown_write, ResetSend, FC!Larger
  <2>3. WindowsWithinCaps' /\ FramesWithinLimits' /\ UpdateDue'
    BY <1>3 DEF CreditInv, WindowsWithinCaps, FramesWithinLimits, UpdateDue, stream_shutdown_write
  <2> QED
    BY <2>1, <2>2, <2>3 DEF CreditInv
<1>4. ASSUME NEW s \in Streams, RecvStopSending(s)
      PROVE  CreditInv'
  <2>1. TypeOK'
    <3>1. CASE ~stop_error[s]
      <4>1. /\ stop_error' = [stop_error EXCEPT ![s] = TRUE] /\ ResetSend(s)
            /\ stop_frames' = stop_frames \ {s}
            /\ UNCHANGED <<connVars, recvVars, max_tx_data, smax, emit_off, closed,
                           max_data_frames, max_stream_data_frames, reset_frames,
                           losses, conn_error>>
        BY <1>4, <3>1 DEF RecvStopSending
      <4>2. tx_data' \in Nat
        BY <4>1 DEF CreditInv, TypeOK, StreamCredit, ResetSend, FC!Larger
      <4> QED
        BY <4>1, <4>2 DEF CreditInv, TypeOK, ResetSend
    <3>2. CASE stop_error[s]
      BY <1>4, <3>2 DEF CreditInv, TypeOK, RecvStopSending
    <3> QED
      BY <3>1, <3>2
  <2>2. StreamCredit' /\ ConnCredit'
    BY <1>4 DEF CreditInv, TypeOK, StreamCredit, ConnCredit, RecvStopSending, ResetSend, FC!Larger
  <2>3. WindowsWithinCaps' /\ FramesWithinLimits' /\ UpdateDue'
    BY <1>4 DEF CreditInv, WindowsWithinCaps, FramesWithinLimits, UpdateDue, RecvStopSending
  <2> QED
    BY <2>1, <2>2, <2>3 DEF CreditInv
<1>5. ASSUME NEW s \in Streams, NEW max \in max_stream_data_frames[s], RecvMaxStreamData(s, max)
      PROVE  CreditInv'
  BY <1>5
  DEF CreditInv, TypeOK, StreamCredit, ConnCredit, WindowsWithinCaps, FramesWithinLimits, UpdateDue,
      RecvMaxStreamData, FC!Larger
<1>6. ASSUME NEW s \in Streams, SendReset(s)
      PROVE  CreditInv'
  BY <1>6
  DEF CreditInv, TypeOK, StreamCredit, ConnCredit, WindowsWithinCaps, FramesWithinLimits, UpdateDue,
      SendReset
<1>7. ASSUME NEW max \in max_data_frames, RecvMaxData(max)
      PROVE  CreditInv'
  BY <1>7
  DEF CreditInv, TypeOK, StreamCredit, ConnCredit, WindowsWithinCaps, FramesWithinLimits, UpdateDue,
      RecvMaxData, FC!Larger
<1>8. ASSUME NEW s \in Streams, RecvReset(s)
      PROVE  CreditInv'
  <2> DEFINE delta == emit_off[s] - received[s]
  <2>0. /\ delta \in Nat /\ received[s] \in Nat /\ emit_off[s] \in Nat /\ rx_data \in Nat
        /\ flow_control.max_data \in Nat
    BY DEF CreditInv, TypeOK, StreamCredit, FC!FlowControlType
  <2>a. ~(rx_data + delta > flow_control.max_data) =>
           /\ reset' = [reset EXCEPT ![s] = TRUE]
           /\ received' = [received EXCEPT ![s] = emit_off[s]]
           /\ ready' = [ready EXCEPT ![s] = emit_off[s]]
           /\ off' = [off EXCEPT ![s] = emit_off[s]]
           /\ rx_data' = rx_data + delta
           /\ reset_frames' = reset_frames \ {s}
           /\ UNCHANGED <<flow_control, almost_full, empty_charged, sflow, drain, stopped, sendVars,
                          almost_full_streams, max_data_frames, conn_error,
                          max_stream_data_frames, stop_frames, losses>>
    BY <1>8 DEF RecvReset
  <2> HIDE DEF delta
  <2>1. TypeOK'
    <3>1. CASE rx_data + delta > flow_control.max_data
      BY <1>8, <3>1 DEF CreditInv, TypeOK, RecvReset, delta
    <3>2. CASE ~(rx_data + delta > flow_control.max_data)
      <4>1. rx_data' \in Nat
        BY <2>0, <2>a, <3>2
      <4>2. reset' \in [Streams -> BOOLEAN]
        BY <2>a, <3>2 DEF CreditInv, TypeOK
      <4>3. /\ received' \in [Streams -> Nat] /\ ready' \in [Streams -> Nat]
            /\ off' \in [Streams -> Nat]
        BY <2>0, <2>a, <3>2 DEF CreditInv, TypeOK
      <4> QED
        BY <2>a, <3>2, <4>1, <4>2, <4>3 DEF CreditInv, TypeOK
    <3> QED
      BY <3>1, <3>2
  <2>2. StreamCredit' /\ ConnCredit'
    <3>1. CASE rx_data + delta > flow_control.max_data
      BY <1>8, <3>1
      DEF CreditInv, TypeOK, StreamCredit, ConnCredit, RecvReset, delta
    <3>2. CASE ~(rx_data + delta > flow_control.max_data)
      <4>1. StreamCredit'
        BY <2>0, <2>a, <3>2
        DEF CreditInv, TypeOK, StreamCredit, FC!FlowControlType
      <4>2. ConnCredit'
        BY <2>0, <2>a, <3>2 DEF CreditInv, ConnCredit
      <4> QED
        BY <4>1, <4>2
    <3> QED
      BY <3>1, <3>2
  <2>3. WindowsWithinCaps' /\ FramesWithinLimits' /\ UpdateDue'
    BY <1>8 DEF CreditInv, WindowsWithinCaps, FramesWithinLimits, UpdateDue, RecvReset
  <2> QED
    BY <2>1, <2>2, <2>3 DEF CreditInv
<1>9. ASSUME NEW s \in Streams, stream_shutdown_read(s)
      PROVE  CreditInv'
  <2>1. TypeOK'
    BY <1>9 DEF CreditInv, TypeOK, StreamCredit, stream_shutdown_read
  <2>2. StreamCredit' /\ ConnCredit'
    BY <1>9
    DEF CreditInv, TypeOK, StreamCredit, ConnCredit, stream_shutdown_read,
        FC!FlowControlType
  <2>3. WindowsWithinCaps' /\ FramesWithinLimits' /\ UpdateDue'
    BY <1>9 DEF CreditInv, WindowsWithinCaps, FramesWithinLimits, UpdateDue, stream_shutdown_read
  <2> QED
    BY <2>1, <2>2, <2>3 DEF CreditInv
<1>10. ASSUME NEW s \in Streams, SendStopSending(s)
      PROVE  CreditInv'
  BY <1>10
  DEF CreditInv, TypeOK, StreamCredit, ConnCredit, WindowsWithinCaps, FramesWithinLimits, UpdateDue,
      SendStopSending
<1>11. ASSUME NEW max \in max_data_frames, NEW spurious \in BOOLEAN, LoseMaxData(max, spurious)
      PROVE  CreditInv'
  BY <1>11
  DEF CreditInv, TypeOK, StreamCredit, ConnCredit, WindowsWithinCaps, FramesWithinLimits, UpdateDue,
      LoseMaxData, Lose
<1>12. ASSUME NEW s \in Streams, NEW spurious \in BOOLEAN,
             NEW max \in max_stream_data_frames[s], LoseMaxStreamData(s, max, spurious)
      PROVE  CreditInv'
  BY <1>12
  DEF CreditInv, TypeOK, StreamCredit, ConnCredit, WindowsWithinCaps, FramesWithinLimits, UpdateDue,
      LoseMaxStreamData, Lose
<1>13. ASSUME NEW s \in Streams, NEW spurious \in BOOLEAN, LoseReset(s, spurious)
      PROVE  CreditInv'
  BY <1>13
  DEF CreditInv, TypeOK, StreamCredit, ConnCredit, WindowsWithinCaps, FramesWithinLimits, UpdateDue,
      LoseReset, Lose
<1>14. ASSUME NEW s \in Streams, LoseStopSending(s)
      PROVE  CreditInv'
  BY <1>14
  DEF CreditInv, TypeOK, StreamCredit, ConnCredit, WindowsWithinCaps, FramesWithinLimits, UpdateDue,
      LoseStopSending, Lose
<1>15. CASE UNCHANGED vars
  BY <1>15 DEF CreditInv, TypeOK, StreamCredit, ConnCredit, WindowsWithinCaps, FramesWithinLimits, UpdateDue, vars
<1> QED
  BY RecvStreamStep, RecvEmptyStreamStep, StreamRecvStep, SendMaxStreamDataStep, SendMaxDataStep,
     <1>1, <1>2, <1>3, <1>4, <1>5, <1>6, <1>7, <1>8, <1>9, <1>10, <1>11, <1>12, <1>13, <1>14, <1>15
  DEF Next, SenderNext, ReceiverNext, LossNext

-----------------------------------------------------------------------------
\* Every reachable state satisfies the invariant.
THEOREM CreditInvariant == Spec => []CreditInv
<1>1. Init => CreditInv
  BY CreditInit
<1>2. CreditInv /\ [Next]_vars => CreditInv'
  BY CreditStep
<1> QED
  BY <1>1, <1>2, PTL DEF Spec

\* The credit chain of every stream, from the bytes the application consumed to
\* the limit the receiver enforces (RecvBuf::write, SendBuf::write, the
\* MAX_STREAM_DATA handlers).
THEOREM StreamCreditHolds == Spec => []StreamCredit
<1>1. CreditInv => StreamCredit
  BY DEF CreditInv
<1> QED
  BY <1>1, CreditInvariant, PTL

\* The connection's credit: neither max_tx_data - tx_data nor max_data - rx_data
\* can wrap (stream_send, update_tx_cap, process_frame).
THEOREM ConnCreditHolds == Spec => []ConnCredit
<1>1. CreditInv => ConnCredit
  BY DEF CreditInv
<1> QED
  BY <1>1, CreditInvariant, PTL

\* Types of the whole state.
THEOREM TypeCorrect == Spec => []TypeOK
<1>1. CreditInv => TypeOK
  BY DEF CreditInv
<1> QED
  BY <1>1, CreditInvariant, PTL

\* No step takes a granted limit back.
LEMMA LimitsStep ==
    CreditInv /\ [Next]_vars =>
        /\ flow_control'.max_data >= flow_control.max_data
        /\ \A s \in Streams : sflow'[s].max_data >= sflow[s].max_data
<1> SUFFICES ASSUME CreditInv, [Next]_vars
             PROVE  /\ flow_control'.max_data >= flow_control.max_data
                    /\ \A s \in Streams : sflow'[s].max_data >= sflow[s].max_data
  OBVIOUS
<1> DEFINE Kept == /\ flow_control'.max_data = flow_control.max_data
                   /\ \A s \in Streams : sflow'[s].max_data = sflow[s].max_data
<1> USE DEF connVars, recvVars, sendVars, netVars
<1>1. /\ flow_control \in FC!FlowControlType /\ flow_control.max_data \in Nat
      /\ \A s \in Streams : sflow[s] \in FC!FlowControlType /\ sflow[s].max_data \in Nat
      /\ sflow = [s \in Streams |-> sflow[s]]
  BY DEF CreditInv, TypeOK, FC!FlowControlType
<1>2. ASSUME NEW s \in Streams, NEW max_off \in 1..AppLen[s], NEW c \in 0..AppLen[s],
             RecvStream(s, max_off, c)
      PROVE  Kept
  <2>1. FC!Larger(max_off - received[s], 0) \in Nat
    BY DEF CreditInv, TypeOK, FC!Larger
  <2>2. FC!add_consumed(flow_control, FC!Larger(max_off - received[s], 0)).max_data
          = flow_control.max_data
    BY <1>1, <2>1, AddConsumed
  <2> QED
    BY <1>2, <2>2 DEF RecvStream
<1>14. ASSUME NEW s \in Streams, NEW max_off \in 1..AppLen[s], RecvEmptyStream(s, max_off)
      PROVE  Kept
  <2>1. FC!Larger(max_off - received[s], 0) \in Nat
    BY DEF CreditInv, TypeOK, FC!Larger
  <2>2. FC!add_consumed(flow_control, FC!Larger(max_off - received[s], 0)).max_data
          = flow_control.max_data
    BY <1>1, <2>1, AddConsumed
  <2> QED
    BY <1>14, <2>2 DEF RecvEmptyStream
<1>3. ASSUME NEW s \in Streams, NEW n \in 1..AppLen[s], stream_recv(s, n)
      PROVE  Kept
  <2>1. n \in Nat
    BY ConstantsAssumption
  <2>2. /\ FC!add_consumed(flow_control, n).max_data = flow_control.max_data
        /\ FC!add_consumed(sflow[s], n).max_data = sflow[s].max_data
    BY <1>1, <2>1, AddConsumed
  <2> QED
    BY <1>1, <1>3, <2>2 DEF stream_recv
<1>4. ASSUME NEW s \in Streams, NEW recent \in BOOLEAN, NEW fits \in BOOLEAN,
             SendMaxStreamData(s, recent, fits)
      PROVE  /\ flow_control'.max_data = flow_control.max_data
             /\ \A t \in Streams : sflow'[t].max_data >= sflow[t].max_data
  <2> DEFINE sf == FC!autotune_window(sflow[s], recent)
             w == ConnWindowFor(sf.window)
  <2>1. /\ sf \in FC!FlowControlType /\ sf.consumed = sflow[s].consumed
        /\ sf.max_data = sflow[s].max_data
        /\ sflow[s].window <= sf.window /\ sf.window <= MaxStreamWindow
    BY <1>1, AutotuneWindow DEF CreditInv, WindowsWithinCaps
  <2> HIDE DEF sf
  <2>2. FC!update_max_data(sf).max_data = sf.consumed + sf.window
    BY <2>1, UpdateMaxData
  <2>3. w \in Nat
    BY <2>1, ConnWindowBound DEF FC!FlowControlType
  <2> HIDE DEF w
  <2>4. FC!ensure_window_lower_bound(flow_control, w).max_data = flow_control.max_data
    BY <1>1, <2>3, EnsureWindow
  <2>5. sflow[s].max_data <= sf.consumed + sf.window
    <3>1. sflow[s].max_data <= FC!max_data_next(sflow[s])
      BY <1>4 DEF CreditInv, UpdateDue, SendMaxStreamData
    <3> QED
      BY <1>1, <2>1, <3>1 DEF FC!max_data_next, FC!FlowControlType
  <2>6. flow_control'.max_data = flow_control.max_data
    BY <1>4, <2>4 DEF SendMaxStreamData, sf, w
  <2>7. sflow' = [sflow EXCEPT ![s] = IF fits THEN FC!update_max_data(sf) ELSE sf]
    BY <1>4 DEF SendMaxStreamData, sf
  <2> QED
    BY <1>1, <2>1, <2>2, <2>5, <2>6, <2>7
<1>5. ASSUME NEW recent \in BOOLEAN, NEW fits \in BOOLEAN, SendMaxData(recent, fits)
      PROVE  /\ flow_control'.max_data >= flow_control.max_data
             /\ sflow' = sflow
  <2> DEFINE fc == FC!autotune_window(flow_control, recent)
  <2>1. /\ fc \in FC!FlowControlType /\ fc.consumed = flow_control.consumed
        /\ fc.max_data = flow_control.max_data /\ flow_control.window <= fc.window
    BY <1>1, AutotuneWindow DEF CreditInv, WindowsWithinCaps
  <2> HIDE DEF fc
  <2>2. FC!update_max_data(fc).max_data = fc.consumed + fc.window
    BY <2>1, UpdateMaxData
  <2>3. flow_control.max_data < flow_control.consumed + flow_control.window
    BY <1>5 DEF SendMaxData, FC!max_data_next
  <2>4. flow_control' \in {fc, FC!update_max_data(fc)} /\ sflow' = sflow
    BY <1>5 DEF SendMaxData, fc
  <2> QED
    BY <1>1, <2>1, <2>2, <2>3, <2>4 DEF FC!FlowControlType
<1>6. CASE flow_control' = flow_control /\ sflow' = sflow
  BY <1>1, <1>6
<1>7. ASSUME NEW s \in Streams, SenderNext(s) PROVE flow_control' = flow_control /\ sflow' = sflow
  BY <1>7 DEF SenderNext, stream_send, emit, stream_shutdown_write, RecvStopSending,
              RecvMaxStreamData, SendReset
<1>8. ASSUME NEW max \in max_data_frames, RecvMaxData(max)
      PROVE  flow_control' = flow_control /\ sflow' = sflow
  BY <1>8 DEF RecvMaxData
<1>9. LossNext => flow_control' = flow_control /\ sflow' = sflow
  BY DEF LossNext, LoseMaxData, LoseMaxStreamData, LoseReset, LoseStopSending
<1>10. ASSUME NEW s \in Streams, RecvReset(s) \/ stream_shutdown_read(s) \/ SendStopSending(s)
       PROVE  flow_control' = flow_control /\ sflow' = sflow
  BY <1>10 DEF RecvReset, stream_shutdown_read, SendStopSending
<1>11. UNCHANGED vars => flow_control' = flow_control /\ sflow' = sflow
  BY DEF vars
<1>12. ASSUME NEW s \in Streams, ReceiverNext(s)
       PROVE  /\ flow_control'.max_data >= flow_control.max_data
              /\ \A t \in Streams : sflow'[t].max_data >= sflow[t].max_data
  BY <1>1, <1>2, <1>3, <1>4, <1>6, <1>10, <1>12, <1>14 DEF ReceiverNext
<1>13. ASSUME NEW recent \in BOOLEAN, NEW fits \in BOOLEAN, SendMaxData(recent, fits)
       PROVE  /\ flow_control'.max_data >= flow_control.max_data
              /\ \A t \in Streams : sflow'[t].max_data >= sflow[t].max_data
  BY <1>1, <1>5, <1>13
<1> QED
  BY <1>6, <1>7, <1>8, <1>9, <1>11, <1>12, <1>13 DEF Next

\* A limit that was granted is never taken back, although a lost
\* MAX_STREAM_DATA is sent again without comparing limits.
THEOREM LimitsMonotone == Spec => LimitsNeverShrink
<1>1. CreditInv /\ [Next]_vars =>
        [/\ flow_control'.max_data >= flow_control.max_data
         /\ \A s \in Streams : sflow'[s].max_data >= sflow[s].max_data]_vars
  BY LimitsStep
<1> QED
  BY <1>1, CreditInvariant, PTL DEF Spec, LimitsNeverShrink

-----------------------------------------------------------------------------
(* Sums over the streams.                                                    *)

\* Induction, on the members of a set.
LEMMA Induction ==
    ASSUME NEW n \in Nat, NEW P, 0 \in P, \A k \in 1 .. n : k - 1 \in P => k \in P
    PROVE  n \in P
<1> SUFFICES ASSUME n \notin P PROVE FALSE
  OBVIOUS
<1> DEFINE bad == {k \in 0 .. n : k \notin P}
<1>1. bad # {} /\ bad \subseteq Nat
  OBVIOUS
<1>2. PICK k \in bad : \A y \in bad : ~(<<y, k>> \in OpToRel(<, Nat))
  BY <1>1, NatLessThanWellFounded, WFMin
<1>3. \A y \in bad : ~(y < k)
  BY <1>1, <1>2, Zenon DEF OpToRel
<1>4. k # 0 /\ k \in 0 .. n
  OBVIOUS
<1>5. k - 1 \in 0 .. n /\ k - 1 \notin bad
  BY <1>3, <1>4
<1> QED
  BY <1>4, <1>5

\* The stream that the sum over S takes first.
One(S) == CHOOSE x \in S : TRUE

\* h is the sum of f over every set of streams.
IsSum(h, f) ==
    h = [S \in SUBSET Streams |-> IF S = {} THEN 0 ELSE f[One(S)] + h[S \ {One(S)}]]

Sums(f) == CHOOSE h : IsSum(h, f)

\* What holds of no streams, and of a set of streams when it does of the set without the
\* one that is taken first, holds of every set of streams.
LEMMA SetInduction ==
    ASSUME NEW P, {} \in P,
           \A S \in SUBSET Streams : S # {} /\ S \ {One(S)} \in P => S \in P
    PROVE  \A S \in SUBSET Streams : S \in P
<1>0. \A S \in SUBSET Streams : IsFiniteSet(S) /\ Cardinality(S) \in Nat
  BY ConstantsAssumption, FS_Subset, FS_CardinalityType
<1> DEFINE Q == {n \in Nat : \A S \in SUBSET Streams : Cardinality(S) = n => S \in P}
<1>1. 0 \in Q
  BY <1>0, FS_EmptySet
<1>2. ASSUME NEW n \in Nat, n # 0, n - 1 \in Q PROVE n \in Q
  <2> SUFFICES ASSUME NEW S \in SUBSET Streams, Cardinality(S) = n PROVE S \in P
    OBVIOUS
  <2>1. S # {}
    BY <1>2, FS_EmptySet
  <2>2. One(S) \in S
    BY <2>1 DEF One
  <2>3. Cardinality(S \ {One(S)}) = n - 1
    BY <1>0, <2>2, FS_RemoveElement
  <2> QED
    BY <1>2, <2>1, <2>3
<1> SUFFICES ASSUME NEW S \in SUBSET Streams PROVE S \in P
  OBVIOUS
<1> HIDE DEF Q
<1>3. Cardinality(S) \in Q
  <2>1. \A k \in 1 .. Cardinality(S) : k - 1 \in Q => k \in Q
    BY <1>0, <1>2
  <2> QED
    BY <1>0, <1>1, <2>1, Induction
<1> QED
  BY <1>3 DEF Q

\* The sums exist.
LEMMA SumExists ==
    ASSUME NEW f \in [Streams -> Nat]
    PROVE  \E h \in [SUBSET Streams -> Nat] : IsSum(h, f)
<1>0. \A S \in SUBSET Streams : IsFiniteSet(S) /\ Cardinality(S) \in Nat
  BY ConstantsAssumption, FS_Subset, FS_CardinalityType
<1> DEFINE Upto(m) == {S \in SUBSET Streams : Cardinality(S) <= m}
           Turn(h, S) == IF S = {} THEN 0 ELSE f[One(S)] + h[S \ {One(S)}]
           Good(m, h) == \A S \in Upto(m) : h[S] = Turn(h, S)
           P == {m \in Nat : \E h \in [Upto(m) -> Nat] : Good(m, h)}
<1>1. 0 \in P
  <2> DEFINE h == [S \in Upto(0) |-> 0]
  <2>1. ASSUME NEW S \in Upto(0) PROVE S = {}
    BY <1>0, FS_EmptySet
  <2>2. h \in [Upto(0) -> Nat] /\ Good(0, h)
    BY <2>1
  <2> HIDE DEF h, Good
  <2> QED
    BY <2>2
<1>2. ASSUME NEW m \in Nat, m # 0, m - 1 \in P PROVE m \in P
  <2>1. PICK h \in [Upto(m - 1) -> Nat] : Good(m - 1, h)
    BY <1>2
  <2> DEFINE g == [S \in Upto(m) |-> Turn(h, S)]
  <2>2. ASSUME NEW S \in Upto(m), S # {}
        PROVE  S \ {One(S)} \in Upto(m - 1) /\ One(S) \in Streams
    <3>1. One(S) \in S
      BY <2>2 DEF One
    <3>2. Cardinality(S \ {One(S)}) = Cardinality(S) - 1
      BY <1>0, <3>1, FS_RemoveElement
    <3>3. Cardinality(S \ {One(S)}) <= m - 1
      BY <1>0, <1>2, <3>2
    <3> QED
      BY <3>1, <3>3
  <2>3. ASSUME NEW S \in Upto(m - 1) PROVE S \in Upto(m) /\ g[S] = h[S]
    <3>1. S \in Upto(m)
      BY <1>0, <1>2
    <3> QED
      BY <2>1, <3>1
  <2>4. g \in [Upto(m) -> Nat]
    <3> SUFFICES ASSUME NEW S \in Upto(m) PROVE Turn(h, S) \in Nat
      OBVIOUS
    <3>1. CASE S = {}
      BY <3>1
    <3>2. CASE S # {}
      <4>1. S \ {One(S)} \in Upto(m - 1) /\ One(S) \in Streams
        BY <2>2, <3>2
      <4> HIDE DEF Upto
      <4>2. h[S \ {One(S)}] \in Nat /\ f[One(S)] \in Nat
        BY <4>1
      <4> QED
        BY <3>2, <4>2
    <3> QED
      BY <3>1, <3>2
  <2>5. Good(m, g)
    <3> SUFFICES ASSUME NEW S \in Upto(m) PROVE g[S] = Turn(g, S)
      OBVIOUS
    <3>1. CASE S = {}
      BY <3>1
    <3>2. CASE S # {}
      <4>1. g[S \ {One(S)}] = h[S \ {One(S)}]
        BY <2>2, <2>3, <3>2
      <4>2. g[S] = f[One(S)] + h[S \ {One(S)}]
        BY <3>2
      <4> HIDE DEF g
      <4> QED
        BY <3>2, <4>1, <4>2
    <3> QED
      BY <3>1, <3>2
  <2> HIDE DEF g, Good
  <2> QED
    BY <2>4, <2>5
<1> DEFINE n == Cardinality(Streams)
<1>3. n \in P
  <2> HIDE DEF P
  <2>1. n \in Nat /\ \A k \in 1 .. n : k - 1 \in P => k \in P
    BY <1>0, <1>2
  <2> QED
    BY <1>1, <2>1, Induction
<1>4. Upto(n) = SUBSET Streams
  <2> SUFFICES ASSUME NEW S \in SUBSET Streams PROVE Cardinality(S) <= n
    OBVIOUS
  <2> QED
    BY ConstantsAssumption, FS_Subset
<1>5. PICK h \in [SUBSET Streams -> Nat] : Good(n, h)
  BY <1>3, <1>4
<1> HIDE DEF Upto
<1>6. IsSum(h, f)
  BY <1>4, <1>5 DEF IsSum
<1> QED
  BY <1>6

\* The sum of f, stream by stream.
LEMMA SumTurn ==
    ASSUME NEW f \in [Streams -> Nat]
    PROVE  /\ Total(f) = Sums(f)[Streams]
           /\ Sums(f)[{}] = 0
           /\ \A S \in SUBSET Streams : S # {} =>
                /\ One(S) \in S
                /\ S \ {One(S)} \in SUBSET Streams
                /\ Sums(f)[S] = f[One(S)] + Sums(f)[S \ {One(S)}]
           /\ \A S \in SUBSET Streams : Sums(f)[S] \in Nat
<1>1. Total(f) = Sums(f)[Streams]
  BY DEF Total, MapThenSumSet, MapThenFoldSet, Sums, IsSum, One
<1> DEFINE h == Sums(f)
<1>2. IsSum(h, f)
  BY SumExists DEF Sums
<1> HIDE DEF h
<1>3. h[{}] = 0
  BY <1>2 DEF IsSum
<1>4. ASSUME NEW S \in SUBSET Streams, S # {}
      PROVE  One(S) \in S /\ S \ {One(S)} \in SUBSET Streams /\ h[S] = f[One(S)] + h[S \ {One(S)}]
  <2>1. One(S) \in S
    BY <1>4 DEF One
  <2> QED
    BY <1>2, <1>4, <2>1 DEF IsSum
<1> DEFINE P == {S \in SUBSET Streams : h[S] \in Nat}
<1>5. {} \in P
  BY <1>3
<1>6. ASSUME NEW S \in SUBSET Streams, S # {}, S \ {One(S)} \in P PROVE S \in P
  <2>1. h[S \ {One(S)}] \in Nat /\ f[One(S)] \in Nat
    BY <1>4, <1>6
  <2>2. h[S] = f[One(S)] + h[S \ {One(S)}]
    BY <1>4, <1>6
  <2>3. h[S] \in Nat
    BY <2>1, <2>2
  <2> QED
    BY <2>3
<1>7. \A S \in SUBSET Streams : S \in P
  <2> HIDE DEF P
  <2> QED
    BY <1>5, <1>6, SetInduction
<1> QED
  BY <1>1, <1>3, <1>4, <1>7 DEF h

\* Sums of larger numbers are larger.
LEMMA TotalMono ==
    ASSUME NEW f \in [Streams -> Nat], NEW g \in [Streams -> Nat], \A s \in Streams : f[s] <= g[s]
    PROVE  Total(f) \in Nat /\ Total(g) \in Nat /\ Total(f) <= Total(g)
<1> DEFINE P == {S \in SUBSET Streams : Sums(f)[S] <= Sums(g)[S]}
<1>1. {} \in P
  BY SumTurn
<1>2. ASSUME NEW S \in SUBSET Streams, S # {}, S \ {One(S)} \in P PROVE S \in P
  <2>1. /\ One(S) \in S /\ S \ {One(S)} \in SUBSET Streams
        /\ Sums(f)[S] = f[One(S)] + Sums(f)[S \ {One(S)}]
        /\ Sums(g)[S] = g[One(S)] + Sums(g)[S \ {One(S)}]
    BY <1>2, SumTurn
  <2>2. Sums(f)[S \ {One(S)}] \in Nat /\ Sums(g)[S \ {One(S)}] \in Nat
    BY <2>1, SumTurn
  <2>3. f[One(S)] \in Nat /\ g[One(S)] \in Nat /\ f[One(S)] <= g[One(S)]
    BY <2>1
  <2>4. Sums(f)[S \ {One(S)}] <= Sums(g)[S \ {One(S)}]
    BY <1>2
  <2>5. Sums(f)[S] <= Sums(g)[S]
    BY <2>1, <2>2, <2>3, <2>4
  <2> QED
    BY <2>5
<1>3. \A S \in SUBSET Streams : S \in P
  <2> HIDE DEF P
  <2> QED
    BY <1>1, <1>2, SetInduction
<1> QED
  BY <1>3, SumTurn

\* The sum changes by as much as the number of one stream does.
LEMMA TotalChange ==
    ASSUME NEW f \in [Streams -> Nat], NEW g \in [Streams -> Nat], NEW s \in Streams,
           \A t \in Streams \ {s} : g[t] = f[t]
    PROVE  Total(f) \in Nat /\ Total(g) \in Nat /\ Total(g) = Total(f) + (g[s] - f[s])
<1> DEFINE d == g[s] - f[s]
           P == {S \in SUBSET Streams : Sums(g)[S] = Sums(f)[S] + (IF s \in S THEN d ELSE 0)}
<1>0. f[s] \in Nat /\ g[s] \in Nat /\ d \in Int /\ f[s] + d = g[s]
  OBVIOUS
<1> HIDE DEF d
<1>1. {} \in P
  BY SumTurn
<1>2. ASSUME NEW S \in SUBSET Streams, S # {}, S \ {One(S)} \in P PROVE S \in P
  <2> DEFINE x == One(S)
             R == S \ {x}
  <2>1. /\ x \in S /\ R \in SUBSET Streams
        /\ Sums(f)[S] = f[x] + Sums(f)[R]
        /\ Sums(g)[S] = g[x] + Sums(g)[R]
    BY <1>2, SumTurn
  <2>2. Sums(f)[R] \in Nat /\ Sums(g)[R] \in Nat /\ f[x] \in Nat /\ g[x] \in Nat
    BY <2>1, SumTurn
  <2>3. Sums(g)[R] = Sums(f)[R] + (IF s \in R THEN d ELSE 0)
    BY <1>2
  <2>4. s \in R <=> s \in S /\ s # x
    OBVIOUS
  <2> HIDE DEF x, R
  <2>5. CASE x = s
    BY <1>0, <2>1, <2>2, <2>3, <2>4, <2>5
  <2>6. CASE x # s
    <3>1. g[x] = f[x]
      BY <2>1, <2>6
    <3>2. s \in R <=> s \in S
      BY <2>4, <2>6
    <3> QED
      BY <1>0, <2>1, <2>2, <2>3, <3>1, <3>2
  <2> QED
    BY <2>5, <2>6
<1>3. \A S \in SUBSET Streams : S \in P
  <2> HIDE DEF P
  <2> QED
    BY <1>1, <1>2, SetInduction
<1> QED
  BY <1>3, SumTurn DEF d

-----------------------------------------------------------------------------
(* The counters of the connection, and no error.                             *)

\* What the connection's controller may have counted as consumed: what was read, and
\* everything that arrived on a stream that was shut down.
Used == [s \in Streams |-> IF drain[s] THEN received[s] ELSE off[s]]

\* An error takes more charges than the limit has room for.
OnlyCharged == conn_error # "None" => tx_data + empty_charged > flow_control.max_data

CountInv ==
    /\ CreditInv
    /\ OnlyCharged
    /\ rx_data = Total(received) + empty_charged /\ tx_data = Total(soff)
    /\ flow_control.consumed <= Total(Used) + empty_charged

\* The counters in their order.
LEMMA Counted ==
    ASSUME CountInv
    PROVE  /\ received \in [Streams -> Nat] /\ soff \in [Streams -> Nat] /\ Used \in [Streams -> Nat]
           /\ emit_off \in [Streams -> Nat] /\ off \in [Streams -> Nat]
           /\ drain \in [Streams -> BOOLEAN]
           /\ flow_control.consumed \in Nat /\ rx_data \in Nat /\ tx_data \in Nat
           /\ flow_control.max_data \in Nat /\ empty_charged \in Nat
           /\ Total(Used) \in Nat /\ flow_control.consumed <= Total(Used) + empty_charged
           /\ Total(Used) + empty_charged <= rx_data /\ rx_data <= tx_data + empty_charged
           /\ \A s \in Streams : received[s] <= emit_off[s] /\ emit_off[s] <= soff[s]
                                 /\ off[s] <= received[s]
<1>1. /\ received \in [Streams -> Nat] /\ soff \in [Streams -> Nat] /\ off \in [Streams -> Nat]
      /\ emit_off \in [Streams -> Nat] /\ ready \in [Streams -> Nat]
      /\ drain \in [Streams -> BOOLEAN]
      /\ flow_control.consumed \in Nat /\ rx_data \in Nat /\ tx_data \in Nat
      /\ flow_control.max_data \in Nat /\ empty_charged \in Nat
  BY DEF CountInv, CreditInv, TypeOK, FC!FlowControlType
<1>2. \A s \in Streams : /\ received[s] <= emit_off[s] /\ emit_off[s] <= soff[s]
                         /\ off[s] <= received[s] /\ received[s] <= soff[s]
  <2> SUFFICES ASSUME NEW s \in Streams
               PROVE  /\ received[s] <= emit_off[s] /\ emit_off[s] <= soff[s]
                      /\ off[s] <= received[s] /\ received[s] <= soff[s]
    OBVIOUS
  <2>1. /\ off[s] <= ready[s] /\ ready[s] <= received[s]
        /\ received[s] <= emit_off[s] /\ emit_off[s] <= soff[s]
    BY DEF CountInv, CreditInv, StreamCredit
  <2>2. /\ off[s] \in Nat /\ ready[s] \in Nat /\ received[s] \in Nat
        /\ emit_off[s] \in Nat /\ soff[s] \in Nat
    BY <1>1
  <2> QED
    BY <2>1, <2>2
<1>3. Used \in [Streams -> Nat] /\ \A s \in Streams : Used[s] <= received[s]
  BY <1>1, <1>2 DEF Used
<1>4. Total(Used) <= Total(received) /\ Total(Used) \in Nat /\ Total(received) \in Nat
  BY <1>1, <1>3, TotalMono
<1>5. Total(received) <= Total(soff) /\ Total(soff) \in Nat
  BY <1>1, <1>2, TotalMono
<1> QED
  BY <1>1, <1>2, <1>3, <1>4, <1>5 DEF CountInv

\* What a stream can still be sent is within what the sender counts, but for the empty frames.
LEMMA RoomLeft ==
    ASSUME CountInv, NEW s \in Streams, NEW n \in Nat, n <= emit_off[s], received[s] <= n
    PROVE  /\ rx_data + (n - received[s]) <= tx_data + empty_charged
           /\ rx_data + (n - received[s]) = Total([received EXCEPT ![s] = n]) + empty_charged
<1> DEFINE g == [received EXCEPT ![s] = n]
<1>0. /\ received \in [Streams -> Nat] /\ soff \in [Streams -> Nat] /\ emit_off \in [Streams -> Nat]
      /\ rx_data \in Nat /\ tx_data \in Nat /\ empty_charged \in Nat
      /\ \A t \in Streams : received[t] <= emit_off[t] /\ emit_off[t] <= soff[t]
  BY Counted
<1>1. /\ g \in [Streams -> Nat] /\ g[s] = n
      /\ \A t \in Streams \ {s} : g[t] = received[t]
  BY <1>0
<1> HIDE DEF g
<1>2. \A t \in Streams : g[t] <= soff[t]
  <2> SUFFICES ASSUME NEW t \in Streams PROVE g[t] <= soff[t]
    OBVIOUS
  <2>1. g[t] <= emit_off[t]
    BY <1>0, <1>1
  <2>2. emit_off[t] <= soff[t] /\ emit_off[t] \in Nat /\ soff[t] \in Nat /\ g[t] \in Nat
    BY <1>0, <1>1
  <2> QED
    BY <2>1, <2>2
<1>3. Total(g) \in Nat /\ Total(g) <= Total(soff)
  BY <1>0, <1>1, <1>2, TotalMono
<1>4. Total(g) = Total(received) + (n - received[s])
  BY <1>0, <1>1, TotalChange
<1>5. rx_data = Total(received) + empty_charged /\ tx_data = Total(soff)
  BY DEF CountInv
<1>6. Total(received) \in Nat
  BY <1>0, TotalMono
<1> QED
  BY <1>0, <1>1, <1>3, <1>4, <1>5, <1>6 DEF g

\* What a step has to keep besides CreditInv.
Sound ==
    /\ OnlyCharged
    /\ rx_data = Total(received) + empty_charged /\ tx_data = Total(soff)
    /\ flow_control.consumed <= Total(Used) + empty_charged

\* An error leaves everything else as it is.
LEMMA ErrorCounts ==
    ASSUME CountInv, NEW d \in Nat, rx_data + d > flow_control.max_data,
           rx_data + d <= tx_data + empty_charged,
           UNCHANGED <<connVars, received, off, drain, soff, tx_data>>
    PROVE  Sound'
<1>1. Used' = Used
  BY DEF Used
<1>2. rx_data \in Nat /\ tx_data \in Nat /\ empty_charged \in Nat /\ flow_control.max_data \in Nat
  BY Counted
<1>3. tx_data + empty_charged > flow_control.max_data
  BY <1>2
<1> QED
  BY <1>1, <1>3 DEF Sound, CountInv, OnlyCharged, connVars

\* STREAM frames: the bytes above the highest offset so far are charged, and within the limit
\* unless empty frames took the room.
LEMMA RecvStreamCounts ==
    ASSUME CountInv, conn_error = "None", NEW s \in Streams, NEW max_off \in 1..AppLen[s], NEW c \in 0..AppLen[s],
           RecvStream(s, max_off, c)
    PROVE  Sound'
<1> USE DEF connVars, recvVars, sendVars, netVars
<1> DEFINE delta == FC!Larger(max_off - received[s], 0)
           fc == FC!add_consumed(flow_control, delta)
           n == FC!Larger(received[s], max_off)
<1>0. /\ received \in [Streams -> Nat] /\ soff \in [Streams -> Nat] /\ Used \in [Streams -> Nat]
      /\ emit_off \in [Streams -> Nat] /\ off \in [Streams -> Nat] /\ drain \in [Streams -> BOOLEAN]
      /\ flow_control.consumed \in Nat /\ rx_data \in Nat /\ flow_control.max_data \in Nat
      /\ flow_control.consumed <= Total(Used) + empty_charged /\ empty_charged \in Nat
      /\ \A t \in Streams : received[t] <= emit_off[t]
      /\ flow_control \in FC!FlowControlType /\ AppLen[s] \in Nat
  BY Counted, ConstantsAssumption DEF CountInv, CreditInv, TypeOK
<1>1. /\ max_off <= emit_off[s] /\ max_off \in Nat /\ received[s] \in Nat /\ emit_off[s] \in Nat
      /\ received[s] <= emit_off[s]
  BY <1>0 DEF RecvStream
<1>2. /\ n \in Nat /\ n <= emit_off[s] /\ received[s] <= n
      /\ delta = n - received[s] /\ delta \in Nat
  BY <1>1 DEF FC!Larger
<1>3. fc.consumed = flow_control.consumed + delta
  BY <1>0, <1>2, AddConsumed
<1>4. max_off <= sflow[s].max_data
  <2>1. /\ emit_off[s] <= soff[s] /\ soff[s] <= smax[s] /\ smax[s] <= sflow[s].max_data
    BY DEF CountInv, CreditInv, StreamCredit
  <2>2. soff[s] \in Nat /\ smax[s] \in Nat /\ sflow[s].max_data \in Nat
    BY <1>0 DEF CountInv, CreditInv, TypeOK, FC!FlowControlType
  <2> QED
    BY <1>1, <2>1, <2>2
<1> HIDE DEF delta, n, fc
<1>5. /\ rx_data + delta <= tx_data + empty_charged
      /\ rx_data + delta = Total([received EXCEPT ![s] = n]) + empty_charged
  BY <1>2, RoomLeft
<1>6. CASE rx_data + delta > flow_control.max_data
  <2>1. UNCHANGED <<connVars, received, off, drain, soff, tx_data>>
    BY <1>6 DEF RecvStream, delta
  <2> QED
    BY <1>2, <1>5, <1>6, <2>1, ErrorCounts
<1>7. CASE ~(rx_data + delta > flow_control.max_data)
  <2>1. sflow[s].max_data \in Nat
    BY DEF CountInv, CreditInv, TypeOK, FC!FlowControlType
  <2>2. ~(rx_data + delta > flow_control.max_data \/ max_off > sflow[s].max_data)
    BY <1>1, <1>4, <1>7, <2>1
  <2>3. /\ received' = [received EXCEPT ![s] = n] /\ rx_data' = rx_data + delta
        /\ IF drain[s] THEN flow_control' = fc ELSE flow_control' = flow_control
        /\ UNCHANGED <<off, conn_error, drain, soff, tx_data, empty_charged>>
    BY <2>2 DEF RecvStream, delta, fc, n
  <2>4. Used' \in [Streams -> Nat] /\ \A t \in Streams \ {s} : Used'[t] = Used[t]
    BY <1>0, <1>2, <2>3 DEF Used
  <2>5. Used'[s] - Used[s] = IF drain[s] THEN delta ELSE 0
    BY <1>0, <1>2, <2>3 DEF Used
  <2>6. Total(Used) \in Nat /\ Total(Used') = Total(Used) + (Used'[s] - Used[s])
    BY <1>0, <2>4, TotalChange
  <2>7. flow_control'.consumed <= Total(Used') + empty_charged'
    BY <1>0, <1>2, <1>3, <2>3, <2>5, <2>6
  <2> QED
    BY <1>5, <2>3, <2>7 DEF Sound, CountInv, OnlyCharged
<1> QED
  BY <1>6, <1>7

\* Frames without data: what they are charged is counted apart.
LEMMA RecvEmptyStreamCounts ==
    ASSUME CountInv, conn_error = "None", NEW s \in Streams, NEW max_off \in 1..AppLen[s],
           RecvEmptyStream(s, max_off)
    PROVE  Sound'
<1> USE DEF connVars, recvVars, sendVars, netVars
<1> DEFINE delta == FC!Larger(max_off - received[s], 0)
           fc == FC!add_consumed(flow_control, delta)
           n == FC!Larger(received[s], max_off)
<1>0. /\ received \in [Streams -> Nat] /\ emit_off \in [Streams -> Nat] /\ AppLen[s] \in Nat
      /\ rx_data \in Nat /\ flow_control.max_data \in Nat /\ empty_charged \in Nat
      /\ flow_control.consumed \in Nat /\ Total(Used) \in Nat
      /\ flow_control.consumed <= Total(Used) + empty_charged
      /\ flow_control \in FC!FlowControlType
      /\ \A t \in Streams : received[t] <= emit_off[t]
  BY Counted, ConstantsAssumption DEF CountInv, CreditInv, TypeOK
<1>1. /\ max_off <= emit_off[s] /\ max_off \in Nat /\ received[s] \in Nat /\ emit_off[s] \in Nat
      /\ received[s] <= emit_off[s]
  BY <1>0 DEF RecvEmptyStream
<1>2. /\ n \in Nat /\ n <= emit_off[s] /\ received[s] <= n
      /\ delta = n - received[s] /\ delta \in Nat
  BY <1>1 DEF FC!Larger
<1>3. fc.consumed = flow_control.consumed + delta
  BY <1>0, <1>2, AddConsumed
<1>4. max_off <= sflow[s].max_data /\ sflow[s].max_data \in Nat
  <2>1. /\ emit_off[s] <= soff[s] /\ soff[s] <= smax[s] /\ smax[s] <= sflow[s].max_data
    BY DEF CountInv, CreditInv, StreamCredit
  <2>2. soff[s] \in Nat /\ smax[s] \in Nat /\ sflow[s].max_data \in Nat
    BY <1>0 DEF CountInv, CreditInv, TypeOK, FC!FlowControlType
  <2> QED
    BY <1>1, <2>1, <2>2
<1> HIDE DEF delta, n, fc
<1>5. rx_data + delta <= tx_data + empty_charged
  BY <1>2, RoomLeft
<1>6. CASE rx_data + delta > flow_control.max_data
  <2>1. UNCHANGED <<connVars, received, off, drain, soff, tx_data>>
    BY <1>6 DEF RecvEmptyStream, delta
  <2> QED
    BY <1>2, <1>5, <1>6, <2>1, ErrorCounts
<1>7. CASE ~(rx_data + delta > flow_control.max_data)
  <2>1. ~(rx_data + delta > flow_control.max_data \/ max_off > sflow[s].max_data)
    BY <1>1, <1>4, <1>7
  <2>2. /\ rx_data' = rx_data + delta /\ empty_charged' = empty_charged + delta
        /\ IF drain[s] THEN flow_control' = fc ELSE flow_control' = flow_control
        /\ UNCHANGED <<received, off, conn_error, drain, soff, tx_data>>
    BY <2>1 DEF RecvEmptyStream, delta, fc
  <2>3. Used' = Used
    BY <2>2 DEF Used
  <2>4. flow_control'.consumed <= Total(Used) + empty_charged'
    BY <1>0, <1>2, <1>3, <2>2
  <2>5. Total(received) \in Nat
    BY <1>0, TotalMono
  <2>6. rx_data' = Total(received) + empty_charged'
    BY <1>0, <1>2, <2>2, <2>5 DEF CountInv
  <2> QED
    BY <2>2, <2>3, <2>4, <2>6 DEF Sound, CountInv, OnlyCharged
<1> QED
  BY <1>6, <1>7

\* RESET_STREAM: the bytes up to the final size are charged, and within the limit unless
\* empty frames took the room.
LEMMA RecvResetCounts ==
    ASSUME CountInv, conn_error = "None", NEW s \in Streams, RecvReset(s)
    PROVE  Sound'
<1> USE DEF connVars, recvVars, sendVars, netVars
<1> DEFINE n == emit_off[s]
<1>0. /\ received \in [Streams -> Nat] /\ soff \in [Streams -> Nat] /\ Used \in [Streams -> Nat]
      /\ emit_off \in [Streams -> Nat] /\ off \in [Streams -> Nat] /\ drain \in [Streams -> BOOLEAN]
      /\ flow_control.consumed \in Nat
      /\ flow_control.consumed <= Total(Used) + empty_charged /\ empty_charged \in Nat
      /\ \A t \in Streams : received[t] <= emit_off[t] /\ off[t] <= received[t]
  BY Counted
<1>1. n \in Nat /\ n <= emit_off[s] /\ received[s] <= n /\ received[s] \in Nat /\ off[s] \in Nat
      /\ off[s] <= received[s]
  BY <1>0
<1>2. /\ rx_data + (n - received[s]) <= tx_data + empty_charged
      /\ rx_data + (n - received[s]) = Total([received EXCEPT ![s] = n]) + empty_charged
  <2> HIDE DEF n
  <2> QED
    BY <1>1, RoomLeft
<1>3. CASE rx_data + (n - received[s]) > flow_control.max_data
  <2>1. UNCHANGED <<connVars, received, off, drain, soff, tx_data>>
    BY <1>3 DEF RecvReset
  <2>2. PICK d \in Nat : d = n - received[s]
    BY <1>1
  <2> HIDE DEF n
  <2> QED
    BY <1>2, <1>3, <2>1, <2>2, ErrorCounts
<1>4. CASE ~(rx_data + (n - received[s]) > flow_control.max_data)
  <2>1. /\ received' = [received EXCEPT ![s] = n] /\ off' = [off EXCEPT ![s] = n]
        /\ rx_data' = rx_data + (n - received[s])
        /\ UNCHANGED <<conn_error, drain, soff, tx_data, flow_control, empty_charged>>
    BY <1>4 DEF RecvReset
  <2> HIDE DEF n
  <2>2. Used' \in [Streams -> Nat] /\ \A t \in Streams \ {s} : Used'[t] = Used[t]
    BY <1>0, <1>1, <2>1 DEF Used
  <2>3. Used'[s] = n /\ Used[s] <= n /\ Used[s] \in Nat
    BY <1>0, <1>1, <2>1 DEF Used
  <2>4. \A t \in Streams : Used[t] <= Used'[t]
    BY <1>0, <2>2, <2>3
  <2>5. Total(Used) <= Total(Used') /\ Total(Used) \in Nat /\ Total(Used') \in Nat
    BY <1>0, <2>2, <2>4, TotalMono
  <2> QED
    BY <1>0, <1>2, <2>1, <2>5 DEF Sound, CountInv, OnlyCharged
<1> QED
  BY <1>3, <1>4

\* stream_recv: what is read is counted once.
LEMMA StreamRecvCounts ==
    ASSUME CountInv, conn_error = "None", NEW s \in Streams, NEW n \in 1..AppLen[s], stream_recv(s, n)
    PROVE  Sound'
<1> USE DEF connVars, recvVars, sendVars, netVars
<1> DEFINE fc == FC!add_consumed(flow_control, n)
<1>0. /\ received \in [Streams -> Nat] /\ Used \in [Streams -> Nat]
      /\ off \in [Streams -> Nat] /\ drain \in [Streams -> BOOLEAN]
      /\ flow_control.consumed \in Nat /\ empty_charged \in Nat
      /\ flow_control.consumed <= Total(Used) + empty_charged
      /\ flow_control \in FC!FlowControlType /\ n \in Nat
  BY Counted, ConstantsAssumption DEF CountInv, CreditInv, TypeOK
<1>1. fc.consumed = flow_control.consumed + n
  BY <1>0, AddConsumed
<1>2. /\ ~drain[s] /\ off' = [off EXCEPT ![s] = @ + n] /\ flow_control' = fc
      /\ UNCHANGED <<rx_data, empty_charged, received, drain, tx_data, soff, conn_error>>
  BY DEF stream_recv
<1> HIDE DEF fc
<1>3. Used' \in [Streams -> Nat] /\ \A t \in Streams \ {s} : Used'[t] = Used[t]
  BY <1>0, <1>2 DEF Used
<1>4. Used'[s] - Used[s] = n
  BY <1>0, <1>2 DEF Used
<1>5. Total(Used) \in Nat /\ Total(Used') = Total(Used) + (Used'[s] - Used[s])
  BY <1>0, <1>3, TotalChange
<1> QED
  BY <1>0, <1>1, <1>2, <1>4, <1>5 DEF Sound, CountInv, OnlyCharged

\* stream_shutdown(Shutdown::Read): nothing is counted.
LEMMA ShutdownReadCounts ==
    ASSUME CountInv, conn_error = "None", NEW s \in Streams, stream_shutdown_read(s)
    PROVE  Sound'
<1> USE DEF connVars, recvVars, sendVars, netVars
<1>0. /\ received \in [Streams -> Nat] /\ Used \in [Streams -> Nat]
      /\ off \in [Streams -> Nat] /\ drain \in [Streams -> BOOLEAN]
      /\ flow_control.consumed \in Nat /\ empty_charged \in Nat
      /\ flow_control.consumed <= Total(Used) + empty_charged
      /\ \A t \in Streams : off[t] <= received[t]
  BY Counted
<1>1. /\ drain' = [drain EXCEPT ![s] = TRUE] /\ off' = [off EXCEPT ![s] = received[s]]
      /\ UNCHANGED <<rx_data, empty_charged, received, tx_data, soff, conn_error, flow_control>>
  BY DEF stream_shutdown_read
<1>2. Used' \in [Streams -> Nat] /\ \A t \in Streams : Used[t] <= Used'[t]
  BY <1>0, <1>1 DEF Used
<1>3. Total(Used) <= Total(Used') /\ Total(Used) \in Nat /\ Total(Used') \in Nat
  BY <1>0, <1>2, TotalMono
<1> QED
  BY <1>0, <1>1, <1>3 DEF Sound, CountInv, OnlyCharged

\* stream_send and reset move tx_data with the end of what is buffered.
LEMMA SenderCounts ==
    ASSUME CountInv, conn_error = "None", NEW s \in Streams, NEW n \in Nat, soff' = [soff EXCEPT ![s] = n],
           tx_data' = tx_data + (n - soff[s]),
           UNCHANGED <<rx_data, empty_charged, received, off, drain, flow_control, conn_error>>
    PROVE  Sound'
<1>0. soff \in [Streams -> Nat]
  BY Counted
<1>1. soff' \in [Streams -> Nat] /\ soff'[s] = n /\ \A t \in Streams \ {s} : soff'[t] = soff[t]
  BY <1>0
<1>2. Total(soff') = Total(soff) + (soff'[s] - soff[s])
  BY <1>0, <1>1, TotalChange
<1>3. Used' = Used
  BY DEF Used
<1> QED
  BY <1>1, <1>2, <1>3 DEF Sound, CountInv, OnlyCharged

\* SendBuf::reset: as much is clawed back as was buffered and not sent.
LEMMA ResetSendCounts ==
    ASSUME CountInv, conn_error = "None", NEW s \in Streams, ResetSend(s),
           UNCHANGED <<rx_data, empty_charged, received, off, drain, flow_control, conn_error>>
    PROVE  Sound'
<1> DEFINE n == emit_off[s]
<1>0. /\ soff \in [Streams -> Nat] /\ emit_off \in [Streams -> Nat]
      /\ tx_data \in Nat /\ \A t \in Streams : emit_off[t] <= soff[t]
  BY Counted
<1>1. n \in Nat /\ soff[s] \in Nat /\ n <= soff[s]
  BY <1>0
<1>2. soff' = [soff EXCEPT ![s] = n]
  BY DEF ResetSend
<1>3. tx_data - (soff[s] - n) >= 0
  <2> DEFINE g == [soff EXCEPT ![s] = n]
  <2>1. g \in [Streams -> Nat] /\ g[s] = n /\ \A t \in Streams \ {s} : g[t] = soff[t]
    BY <1>0, <1>1
  <2> HIDE DEF g
  <2>2. Total(g) \in Nat /\ Total(g) = Total(soff) + (g[s] - soff[s])
    BY <1>0, <2>1, TotalChange
  <2>3. tx_data = Total(soff)
    BY DEF CountInv
  <2> QED
    BY <1>0, <1>1, <2>1, <2>2, <2>3
<1>4. tx_data' = tx_data + (n - soff[s])
  BY <1>0, <1>1, <1>3 DEF ResetSend, FC!Larger
<1> HIDE DEF n
<1> QED
  BY <1>1, <1>2, <1>4, SenderCounts

\* Every step keeps the counts.
LEMMA CountStep ==
    ASSUME CountInv, [Next]_vars
    PROVE  CountInv'
<1> USE DEF connVars, recvVars, sendVars, netVars
<1>0. CreditInv' /\ CreditInv
  BY CreditStep DEF CountInv
<1> SUFFICES Sound'
  BY <1>0 DEF Sound, CountInv
<1>a. CASE UNCHANGED vars
  <2>1. Used' = Used
    BY <1>a DEF vars, Used
  <2> QED
    BY <1>a, <2>1 DEF vars, Sound, CountInv, OnlyCharged
<1>b. SUFFICES ASSUME conn_error = "None" PROVE Sound'
  BY <1>a DEF Next
<1>1. ASSUME UNCHANGED <<rx_data, empty_charged, received, off, drain, conn_error, tx_data, soff>>,
             flow_control'.consumed = flow_control.consumed
      PROVE  Sound'
  <2>1. Used' = Used
    BY <1>1 DEF Used
  <2> QED
    BY <1>b, <1>1, <2>1 DEF Sound, CountInv, OnlyCharged
<1>2. ASSUME NEW s \in Streams, NEW n \in 1..AppLen[s], stream_send(s, n) PROVE Sound'
  <2>1. soff \in [Streams -> Nat] /\ tx_data \in Nat /\ n \in Nat
    BY Counted, ConstantsAssumption
  <2>2. PICK m \in Nat : m = soff[s] + n
    BY <2>1
  <2>3. /\ soff' = [soff EXCEPT ![s] = m] /\ tx_data' = tx_data + n
        /\ UNCHANGED <<rx_data, empty_charged, received, off, drain, flow_control, conn_error>>
    BY <1>2, <2>2 DEF stream_send
  <2>4. tx_data' = tx_data + (m - soff[s])
    BY <2>1, <2>2, <2>3
  <2> QED
    BY <1>b, <2>3, <2>4, SenderCounts
<1>3. ASSUME NEW s \in Streams, stream_shutdown_write(s) PROVE Sound'
  BY <1>b, <1>3, ResetSendCounts DEF stream_shutdown_write
<1>4. ASSUME NEW s \in Streams, RecvStopSending(s) PROVE Sound'
  <2>1. CASE ~stop_error[s]
    BY <1>b, <1>4, <2>1, ResetSendCounts DEF RecvStopSending
  <2>2. CASE stop_error[s]
    BY <1>1, <1>4, <2>2 DEF RecvStopSending
  <2> QED
    BY <2>1, <2>2
<1>5. ASSUME NEW s \in Streams, SenderNext(s) PROVE Sound'
  <2>1. ASSUME NEW n \in 1..AppLen[s], emit(s, n) PROVE Sound'
    BY <1>1, <2>1 DEF emit
  <2>2. ASSUME NEW max \in max_stream_data_frames[s], RecvMaxStreamData(s, max) PROVE Sound'
    BY <1>1, <2>2 DEF RecvMaxStreamData
  <2>3. CASE SendReset(s)
    BY <1>1, <2>3 DEF SendReset
  <2> QED
    BY <1>2, <1>3, <1>4, <1>5, <2>1, <2>2, <2>3 DEF SenderNext
<1>6. ASSUME NEW s \in Streams, ReceiverNext(s) PROVE Sound'
  <2>1. ASSUME NEW max_off \in 1..AppLen[s], RecvEmptyStream(s, max_off) PROVE Sound'
    BY <1>b, <2>1, RecvEmptyStreamCounts
  <2>2. ASSUME NEW recent \in BOOLEAN, NEW fits \in BOOLEAN, SendMaxStreamData(s, recent, fits)
        PROVE  Sound'
    <3> DEFINE sf == FC!autotune_window(sflow[s], recent)
               w == ConnWindowFor(sf.window)
    <3>1. flow_control \in FC!FlowControlType /\ sflow[s] \in FC!FlowControlType
      BY <1>0 DEF CreditInv, TypeOK
    <3>2. sf \in FC!FlowControlType /\ sf.window <= MaxStreamWindow
      BY <1>0, <3>1, AutotuneWindow DEF CreditInv, WindowsWithinCaps
    <3>3. w \in Nat
      <4> HIDE DEF sf
      <4> QED
        BY <3>2, ConnWindowBound DEF FC!FlowControlType
    <3>4. flow_control' \in {flow_control, FC!ensure_window_lower_bound(flow_control, w)}
      BY <2>2 DEF SendMaxStreamData
    <3> HIDE DEF w
    <3>5. FC!ensure_window_lower_bound(flow_control, w).consumed = flow_control.consumed
      BY <3>1, <3>3, EnsureWindow
    <3>6. UNCHANGED <<rx_data, empty_charged, received, off, drain, conn_error, tx_data, soff>>
      BY <2>2 DEF SendMaxStreamData
    <3> QED
      BY <1>1, <3>4, <3>5, <3>6
  <2>3. CASE SendStopSending(s)
    BY <1>1, <2>3 DEF SendStopSending
  <2> QED
    BY <1>b, <1>6, <2>1, <2>2, <2>3, RecvStreamCounts, RecvResetCounts, StreamRecvCounts, ShutdownReadCounts
    DEF ReceiverNext
<1>7. ASSUME NEW max \in max_data_frames, RecvMaxData(max) PROVE Sound'
  BY <1>1, <1>7 DEF RecvMaxData
<1>8. ASSUME NEW recent \in BOOLEAN, NEW fits \in BOOLEAN, SendMaxData(recent, fits) PROVE Sound'
  <2> DEFINE fc == FC!autotune_window(flow_control, recent)
  <2>1. flow_control \in FC!FlowControlType
    BY <1>0 DEF CreditInv, TypeOK
  <2>2. fc \in FC!FlowControlType /\ fc.consumed = flow_control.consumed
    BY <1>0, <2>1, AutotuneWindow DEF CreditInv, WindowsWithinCaps
  <2>3. /\ flow_control' \in {fc, FC!update_max_data(fc)}
        /\ UNCHANGED <<rx_data, empty_charged, received, off, drain, conn_error, tx_data, soff>>
    BY <1>8 DEF SendMaxData
  <2> HIDE DEF fc
  <2>4. FC!update_max_data(fc).consumed = fc.consumed
    BY <2>2, UpdateMaxData
  <2> QED
    BY <1>1, <2>2, <2>3, <2>4
<1>9. ASSUME LossNext PROVE Sound'
  BY <1>1, <1>9 DEF LossNext, LoseMaxData, LoseMaxStreamData, LoseReset, LoseStopSending
<1> QED
  BY <1>a, <1>5, <1>6, <1>7, <1>8, <1>9 DEF Next

\* The counters start at zero.
LEMMA CountInit ==
    ASSUME Init
    PROVE  CountInv
<1> DEFINE zero == [s \in Streams |-> 0]
<1>1. received = zero /\ soff = zero /\ rx_data = 0 /\ tx_data = 0 /\ conn_error = "None"
      /\ empty_charged = 0
  BY DEF Init
<1>2. Used = zero
  BY DEF Init, Used
<1>3. flow_control.consumed = 0
  BY InitFlows DEF Init
<1>4. Total(zero) = 0
  <2> DEFINE P == {S \in SUBSET Streams : Sums(zero)[S] = 0}
  <2>0. zero \in [Streams -> Nat] /\ \A s \in Streams : zero[s] = 0
    OBVIOUS
  <2> HIDE DEF zero
  <2>1. {} \in P
    BY <2>0, SumTurn
  <2>2. ASSUME NEW S \in SUBSET Streams, S # {}, S \ {One(S)} \in P PROVE S \in P
    <3>1. One(S) \in S /\ Sums(zero)[S] = zero[One(S)] + Sums(zero)[S \ {One(S)}]
      BY <2>0, <2>2, SumTurn
    <3>2. zero[One(S)] = 0 /\ Sums(zero)[S \ {One(S)}] = 0
      BY <2>0, <2>2, <3>1
    <3> QED
      BY <3>1, <3>2
  <2>3. \A S \in SUBSET Streams : S \in P
    <3> HIDE DEF P
    <3> QED
      BY <2>1, <2>2, SetInduction
  <2> QED
    BY <2>0, <2>3, SumTurn
<1> HIDE DEF zero
<1> QED
  BY <1>1, <1>2, <1>3, <1>4, CreditInit DEF CountInv, OnlyCharged

\* The invariant with the counters holds in every state, with and without frames that
\* carry no data.
THEOREM CountInvariant == Spec => []CountInv
<1>1. Init => CountInv
  BY CountInit
<1>2. CountInv /\ [Next]_vars => CountInv'
  BY CountStep
<1> QED
  BY <1>1, <1>2, PTL DEF Spec

\* The connection's counters are the sums of the streams' offsets, and of what empty STREAM
\* frames were charged, for any finite number of streams and whatever is sent, lost,
\* repeated, reset or shut down.
THEOREM CountersAreSumsHolds == Spec => []CountersAreSums
<1>1. CountInv => CountersAreSums
  <2> SUFFICES ASSUME CountInv PROVE CountersAreSums
    OBVIOUS
  <2>1. /\ flow_control.consumed \in Nat /\ rx_data \in Nat /\ empty_charged \in Nat
        /\ Total(Used) \in Nat /\ flow_control.consumed <= Total(Used) + empty_charged
        /\ Total(Used) + empty_charged <= rx_data /\ rx_data <= tx_data + empty_charged
    BY Counted
  <2>2. flow_control.consumed <= rx_data
    BY <2>1
  <2> QED
    BY <2>1, <2>2 DEF CountersAreSums, CountInv
<1> QED
  BY <1>1, CountInvariant, PTL

\* A sender that keeps to its limits is accused of exceeding them, by the STREAM and
\* RESET_STREAM handlers or by RecvBuf::write, only when empty frames were charged and what
\* they were charged, added to what the sender counts, exceeds the limit of the connection:
\* since the sender stays within that limit, the second implies the first.
THEOREM NoFlowControlErrorHolds == Spec => []NoFlowControlError
<1>1. CountInv => NoFlowControlError
  <2> SUFFICES ASSUME CountInv, conn_error # "None"
               PROVE  empty_charged > 0 /\ tx_data + empty_charged > flow_control.max_data
    BY DEF NoFlowControlError
  <2>1. tx_data + empty_charged > flow_control.max_data
    BY DEF CountInv, OnlyCharged
  <2>2. tx_data <= max_tx_data /\ max_tx_data <= flow_control.max_data
    BY DEF CountInv, CreditInv, ConnCredit
  <2>3. /\ tx_data \in Nat /\ max_tx_data \in Nat
        /\ flow_control.max_data \in Nat /\ empty_charged \in Nat
    BY Counted DEF CountInv, CreditInv, TypeOK
  <2> QED
    BY <2>1, <2>2, <2>3
<1> QED
  BY <1>1, CountInvariant, PTL

-----------------------------------------------------------------------------
(* The credit for streams (StreamLimits): any initial limit, any number of streams, any  *)
(* loss and order of MAX_STREAMS frames.                                                 *)

LEMMA CountsLarger ==
    ASSUME NEW a \in Nat, NEW b \in Nat
    PROVE  /\ Larger(a, b) \in Nat
           /\ a <= Larger(a, b) /\ b <= Larger(a, b)
           /\ Larger(a, b) \in {a, b}
  BY DEF Larger

\* What the type invariant says of each variable.
LEMMA CountsTypes ==
    ASSUME LimitTypeOK
    PROVE  /\ local_max_streams \in Nat /\ local_max_streams_next \in Nat
           /\ peer_opened_streams \in Nat /\ peer_max_streams \in Nat
           /\ local_opened_streams \in Nat /\ limit_losses \in Nat
  BY DEF LimitTypeOK

\* The streams that were collected are finitely many.
LEMMA CountsCollected ==
    ASSUME LimitTypeOK
    PROVE  IsFiniteSet(collected) /\ Cardinality(collected) \in Nat
<1>1. IsFiniteSet(Ids)
  BY FS_Interval, LimitsAssumption DEF Ids
<1> QED
  BY <1>1, FS_Subset, FS_CardinalityType DEF LimitTypeOK

LEMMA CountsInit == LimitInit => LimitsInv
<1> SUFFICES ASSUME LimitInit PROVE LimitsInv
  OBVIOUS
<1>1. Cardinality({}) = 0
  BY FS_EmptySet
<1> QED
  BY <1>1, LimitsAssumption
  DEF LimitInit, LimitsInv, LimitTypeOK, NoStreamLimitError, OpenedWithinLimits, LimitsInOrder,
      StreamsCounted

LEMMA CountsStep == LimitsInv /\ [LimitNext]_limitVars => LimitsInv'
<1> SUFFICES ASSUME LimitsInv, [LimitNext]_limitVars PROVE LimitsInv'
  OBVIOUS
<1> USE DEF acceptVars, openVars
<1>t. /\ LimitTypeOK /\ local_max_streams \in Nat /\ local_max_streams_next \in Nat
      /\ peer_opened_streams \in Nat /\ peer_max_streams \in Nat
      /\ local_opened_streams \in Nat /\ limit_losses \in Nat
  BY CountsTypes DEF LimitsInv
<1>i. \A id \in Ids : id \in Nat
  BY LimitsAssumption DEF Ids
<1>1. ASSUME NEW id \in Ids, Open(id) PROVE LimitsInv'
  <2> DEFINE n == Larger(local_opened_streams, id + 1)
  <2>1. /\ n \in Nat /\ local_opened_streams <= n /\ id + 1 <= n /\ id \in Nat
    BY <1>t, <1>i, CountsLarger
  <2>2. /\ n <= peer_max_streams /\ local_opened_streams' = n /\ opened' = opened \cup {id}
        /\ UNCHANGED <<acceptVars, peer_max_streams, frames, limit_losses, limit_error>>
    BY <1>1 DEF Open
  <2> HIDE DEF n
  <2>3. opened' \subseteq 0 .. local_opened_streams' - 1
    BY <1>t, <2>1, <2>2 DEF LimitsInv, StreamsCounted
  <2> QED
    BY <1>t, <2>1, <2>2, <2>3
    DEF LimitsInv, LimitTypeOK, NoStreamLimitError, OpenedWithinLimits, LimitsInOrder,
        StreamsCounted
<1>2. ASSUME NEW id \in Ids, Accept(id) PROVE LimitsInv'
  <2> DEFINE n == Larger(peer_opened_streams, id + 1)
  <2>1. /\ n \in Nat /\ peer_opened_streams <= n /\ id + 1 <= n /\ id \in Nat
        /\ n \in {peer_opened_streams, id + 1}
    BY <1>t, <1>i, CountsLarger
  <2>2. n <= local_max_streams
    \* The stream was opened within a limit that was sent.
    <3>1. id + 1 <= local_opened_streams
      BY <1>2, <1>t, <2>1 DEF Accept, LimitsInv, StreamsCounted
    <3>2. id + 1 <= local_max_streams
      BY <1>t, <2>1, <3>1 DEF LimitsInv, OpenedWithinLimits, LimitsInOrder
    <3> QED
      BY <2>1, <3>2 DEF LimitsInv, OpenedWithinLimits
  <2>3. /\ peer_opened_streams' = n /\ streams' = streams \cup {id}
        /\ id \notin collected
        /\ UNCHANGED <<local_max_streams, local_max_streams_next, collected, openVars,
                       frames, limit_losses, limit_error>>
    BY <1>2, <1>t, <2>1, <2>2 DEF Accept
  <2> HIDE DEF n
  <2>4. streams' \cup collected' \subseteq 0 .. peer_opened_streams' - 1
    BY <1>t, <2>1, <2>3 DEF LimitsInv, StreamsCounted
  <2> QED
    BY <1>t, <2>1, <2>2, <2>3, <2>4
    DEF LimitsInv, LimitTypeOK, NoStreamLimitError, OpenedWithinLimits, LimitsInOrder,
        StreamsCounted
<1>3. ASSUME NEW id \in Ids, collect(id) PROVE LimitsInv'
  <2>1. /\ id \in streams /\ id \notin collected
        /\ local_max_streams_next' = local_max_streams_next + 1
        /\ streams' = streams \ {id} /\ collected' = collected \cup {id}
        /\ UNCHANGED <<local_max_streams, peer_opened_streams, openVars, frames,
                       limit_losses, limit_error>>
    BY <1>3 DEF collect, LimitsInv, StreamsCounted
  <2>2. Cardinality(collected') = Cardinality(collected) + 1
    BY <1>t, <2>1, CountsCollected, FS_AddElement
  <2>3. Cardinality(collected) \in Nat
    BY <1>t, CountsCollected
  <2>4. local_max_streams_next' = InitMaxStreams + Cardinality(collected')
    BY <1>t, <2>1, <2>2, <2>3, LimitsAssumption DEF LimitsInv, LimitsInOrder
  <2>5. StreamsCounted'
    BY <2>1 DEF LimitsInv, StreamsCounted
  <2>6. LimitTypeOK'
    BY <1>t, <2>1 DEF LimitTypeOK
  <2>7. NoStreamLimitError' /\ OpenedWithinLimits'
    BY <2>1 DEF LimitsInv, NoStreamLimitError, OpenedWithinLimits
  <2>8. LimitsInOrder'
    BY <1>t, <2>1, <2>4 DEF LimitsInv, LimitsInOrder
  <2> QED
    BY <2>5, <2>6, <2>7, <2>8 DEF LimitsInv
<1>4. CASE SendMaxStreams
  <2>1. /\ frames' = frames \cup {local_max_streams_next}
        /\ local_max_streams' = local_max_streams_next
        /\ UNCHANGED <<local_max_streams_next, peer_opened_streams, streams, collected,
                       openVars, limit_losses, limit_error>>
    BY <1>4 DEF SendMaxStreams
  <2>2. LimitTypeOK'
    BY <1>t, <2>1 DEF LimitTypeOK
  <2>3. NoStreamLimitError' /\ OpenedWithinLimits' /\ StreamsCounted'
    BY <1>t, <2>1
    DEF LimitsInv, NoStreamLimitError, OpenedWithinLimits, LimitsInOrder, StreamsCounted
  <2>4. LimitsInOrder'
    BY <1>t, <2>1 DEF LimitsInv, LimitTypeOK, LimitsInOrder
  <2> QED
    BY <2>2, <2>3, <2>4 DEF LimitsInv
<1>5. ASSUME NEW max \in frames, RecvMaxStreams(max) PROVE LimitsInv'
  <2>1. max \in Nat
    BY <1>t DEF LimitTypeOK
  <2>2. /\ Larger(peer_max_streams, max) \in Nat
        /\ peer_max_streams <= Larger(peer_max_streams, max)
        /\ Larger(peer_max_streams, max) \in {peer_max_streams, max}
    BY <1>t, <2>1, CountsLarger
  <2> QED
    BY <1>5, <1>t, <2>1, <2>2
    DEF RecvMaxStreams, LimitsInv, LimitTypeOK, NoStreamLimitError, OpenedWithinLimits,
        LimitsInOrder, StreamsCounted
<1>6. ASSUME NEW max \in frames, LoseMaxStreams(max) PROVE LimitsInv'
  BY <1>6, <1>t
  DEF LoseMaxStreams, LimitsInv, LimitTypeOK, NoStreamLimitError, OpenedWithinLimits,
      LimitsInOrder, StreamsCounted
<1>7. CASE UNCHANGED limitVars
  BY <1>7
  DEF limitVars, LimitsInv, LimitTypeOK, NoStreamLimitError, OpenedWithinLimits, LimitsInOrder,
      StreamsCounted
<1> QED
  BY <1>1, <1>2, <1>3, <1>4, <1>5, <1>6, <1>7 DEF LimitNext

\* No stream of a peer that keeps to its limits is refused (get_or_create).
THEOREM NoStreamRefused == LimitSpec => []NoStreamLimitError
<1>1. LimitsInv => NoStreamLimitError
  BY DEF LimitsInv
<1> QED
  BY <1>1, CountsInit, CountsStep, PTL DEF LimitSpec

\* The counts stay within the limits, so that the subtractions of
\* peer_streams_left_* and should_update_max_streams_* do not wrap.
THEOREM CountsWithinLimits == LimitSpec => []OpenedWithinLimits
<1>1. LimitsInv => OpenedWithinLimits
  BY DEF LimitsInv
<1> QED
  BY <1>1, CountsInit, CountsStep, PTL DEF LimitSpec

LEMMA InvBoundsStreams == LimitsInv => ConcurrentBound
<1> SUFFICES ASSUME LimitsInv PROVE Cardinality(streams) <= InitMaxStreams
  BY DEF ConcurrentBound
<1>1. /\ local_max_streams \in Nat /\ local_max_streams_next \in Nat
      /\ peer_opened_streams \in Nat
  BY CountsTypes DEF LimitsInv
<1>2. /\ IsFiniteSet(0 .. peer_opened_streams - 1)
      /\ Cardinality(0 .. peer_opened_streams - 1) = peer_opened_streams
  BY <1>1, FS_Interval
<1>3. /\ IsFiniteSet(streams) /\ IsFiniteSet(collected)
      /\ Cardinality(streams \cup collected) <= peer_opened_streams
  BY <1>2, FS_Subset DEF LimitsInv, StreamsCounted
<1>4. /\ Cardinality(streams) \in Nat /\ Cardinality(collected) \in Nat
      /\ Cardinality(streams \cap collected) = 0
  BY <1>3, FS_CardinalityType, FS_EmptySet DEF LimitsInv, StreamsCounted
<1>5. Cardinality(streams \cup collected)
        = Cardinality(streams) + Cardinality(collected) - Cardinality(streams \cap collected)
  BY <1>3, FS_Union
<1>6. /\ peer_opened_streams <= local_max_streams
      /\ local_max_streams <= local_max_streams_next
      /\ local_max_streams_next = InitMaxStreams + Cardinality(collected)
  BY DEF LimitsInv, OpenedWithinLimits, LimitsInOrder
<1> QED
  BY <1>1, <1>3, <1>4, <1>5, <1>6, LimitsAssumption

\* At most initial_max_streams streams of the peer are open at any time, however
\* often credits were returned.
THEOREM ConcurrentStreamsBounded == LimitSpec => []ConcurrentBound
  BY InvBoundsStreams, CountsInit, CountsStep, PTL DEF LimitSpec
=============================================================================
