--------------------------- MODULE ContextProofs ----------------------------
(***************************************************************************)
(* Gas, memory and callbacks of the contexts in a host, for any number of  *)
(* goroutines, contexts and calls within calls.                            *)
(***************************************************************************)
EXTENDS HostProofs

LiveCtx == [setup : Setups, gas : Nat, used : Nat, status : {"live"}]
GoneCtx == [status : {"failed", "disposed"}]
Ats == {"code", "callback", "failed"}
Ops == Operations \cup {Ctx!NoOp}
Runs == {"code", "nothing", "unbound"} \cup Ctx!Callbacks
FrameRecord == [ctx : Nat, gas : Nat, at : Ats, op : Ops, runs : Runs]

CtxTypes == ctxs \in Seq(LiveCtx \cup GoneCtx) /\ frames \in [Goroutines -> Seq(FrameRecord)]
Live(c) == c \in DOMAIN ctxs /\ ctxs[c] \in LiveCtx

(* A context that a call uses is live, and no other call uses it.          *)
InUseLive ==
    /\ \A g \in Goroutines : \A k \in DOMAIN frames[g] : Live(frames[g][k].ctx)
    /\ \A g \in Goroutines : entering[g].in # "no" => Live(entering[g].ctx)
UsedByOne ==
    /\ \A g, h \in Goroutines : \A k \in DOMAIN frames[g], j \in DOMAIN frames[h] :
          frames[g][k].ctx = frames[h][j].ctx => g = h /\ k = j
    /\ \A g, h \in Goroutines : \A j \in DOMAIN frames[h] :
          entering[g].in # "no" => frames[h][j].ctx # entering[g].ctx
    /\ \A g, h \in Goroutines :
          (entering[g].in # "no" /\ entering[h].in # "no" /\ entering[g].ctx = entering[h].ctx)
             => g = h

(* While a call runs, its frame has the gas, and the context an old value. *)
(* What became of the last operation fits how the context is set up.       *)
Separate(op, runs, s) ==
    /\ runs = "debugcallback" <=> Ctx!DebugOperation(op) /\ s.debug
    /\ runs = "nothing" <=> Ctx!DebugOperation(op) /\ ~s.debug
FramesOK ==
    \A g \in Goroutines : \A k \in DOMAIN frames[g] :
        LET f == frames[g][k] IN
        /\ f.gas + ctxs[f.ctx].used = ctxs[f.ctx].setup.limit
        /\ Separate(f.op, f.runs, ctxs[f.ctx].setup)

UseInv == CtxTypes /\ EntriesOK /\ InUseLive /\ UsedByOne
GasInv == UseInv /\ FramesOK /\ GasSpentOnce

-----------------------------------------------------------------------------
(* The innermost frame, and what it leaves when it is taken away.          *)
LEMMA TopOK ==
    ASSUME CtxTypes, NEW g \in Goroutines, frames[g] # <<>>
    PROVE  /\ Len(frames[g]) \in Nat \ {0} /\ DOMAIN frames[g] = 1 .. Len(frames[g])
           /\ Ctx!Top(g) = frames[g][Len(frames[g])] /\ Ctx!Top(g) \in FrameRecord
           /\ Ctx!Outer(g) \in Seq(FrameRecord) /\ Len(Ctx!Outer(g)) = Len(frames[g]) - 1
           /\ \A k \in 1 .. Len(frames[g]) - 1 : Ctx!Outer(g)[k] = frames[g][k]
<1>1. frames[g] \in Seq(FrameRecord)
  BY DEF CtxTypes
<1>2. /\ Len(frames[g]) \in Nat \ {0} /\ DOMAIN frames[g] = 1 .. Len(frames[g])
      /\ frames[g][Len(frames[g])] \in FrameRecord
  BY <1>1
<1>3. /\ Ctx!Outer(g) \in Seq(FrameRecord) /\ Len(Ctx!Outer(g)) = Len(frames[g]) - 1
      /\ \A k \in 1 .. Len(frames[g]) - 1 : Ctx!Outer(g)[k] = frames[g][k]
  BY <1>1, <1>2 DEF Ctx!Outer
<1> QED  BY <1>2, <1>3 DEF Ctx!Top

LEMMA WithTopOK ==
    ASSUME CtxTypes, NEW g \in Goroutines, frames[g] # <<>>, NEW f \in FrameRecord,
           frames' = Ctx!WithTop(g, f)
    PROVE  /\ frames' \in [Goroutines -> Seq(FrameRecord)]
           /\ \A h \in Goroutines \ {g} : frames'[h] = frames[h]
           /\ DOMAIN frames'[g] = DOMAIN frames[g]
           /\ frames'[g][Len(frames[g])] = f
           /\ \A k \in DOMAIN frames[g] : k # Len(frames[g]) => frames'[g][k] = frames[g][k]
<1> DEFINE new == Append(Ctx!Outer(g), f)
<1>1. /\ new \in Seq(FrameRecord) /\ Len(new) = Len(frames[g]) /\ new[Len(frames[g])] = f
      /\ \A k \in 1 .. Len(frames[g]) - 1 : new[k] = frames[g][k]
  BY TopOK
<1>2. frames' = [frames EXCEPT ![g] = new]
  BY DEF Ctx!WithTop
<1> HIDE DEF new
<1>3. /\ frames' \in [Goroutines -> Seq(FrameRecord)] /\ frames'[g] = new
      /\ \A h \in Goroutines \ {g} : frames'[h] = frames[h]
  BY <1>1, <1>2 DEF CtxTypes
<1>4. Len(frames[g]) \in Nat \ {0} /\ DOMAIN frames[g] = 1 .. Len(frames[g])
  BY TopOK
<1>5. DOMAIN new = 1 .. Len(frames[g])
  BY <1>1, <1>4
<1> QED  BY <1>1, <1>3, <1>4, <1>5

LEMMA PopOK ==
    ASSUME CtxTypes, NEW g \in Goroutines, frames[g] # <<>>,
           frames' = [frames EXCEPT ![g] = Ctx!Outer(g)]
    PROVE  /\ frames' \in [Goroutines -> Seq(FrameRecord)]
           /\ \A h \in Goroutines \ {g} : frames'[h] = frames[h]
           /\ DOMAIN frames'[g] = DOMAIN frames[g] \ {Len(frames[g])}
           /\ \A k \in DOMAIN frames'[g] : frames'[g][k] = frames[g][k]
<1> DEFINE new == Ctx!Outer(g)
<1>1. /\ new \in Seq(FrameRecord) /\ Len(new) = Len(frames[g]) - 1
      /\ Len(frames[g]) \in Nat \ {0} /\ DOMAIN frames[g] = 1 .. Len(frames[g])
      /\ \A k \in 1 .. Len(frames[g]) - 1 : new[k] = frames[g][k]
  BY TopOK
<1> HIDE DEF new
<1>2. /\ frames' \in [Goroutines -> Seq(FrameRecord)] /\ frames'[g] = new
      /\ \A h \in Goroutines \ {g} : frames'[h] = frames[h]
  BY <1>1 DEF CtxTypes, new
<1>3. DOMAIN new = 1 .. Len(frames[g]) - 1
  BY <1>1
<1> QED  BY <1>1, <1>2, <1>3

LEMMA PushOK ==
    ASSUME CtxTypes, NEW g \in Goroutines, NEW f \in FrameRecord,
           frames' = [frames EXCEPT ![g] = Append(@, f)]
    PROVE  /\ frames' \in [Goroutines -> Seq(FrameRecord)]
           /\ \A h \in Goroutines \ {g} : frames'[h] = frames[h]
           /\ DOMAIN frames'[g] = DOMAIN frames[g] \cup {Len(frames[g]) + 1}
           /\ Len(frames[g]) + 1 \notin DOMAIN frames[g]
           /\ frames'[g][Len(frames[g]) + 1] = f
           /\ \A k \in DOMAIN frames[g] : frames'[g][k] = frames[g][k]
<1> DEFINE new == Append(frames[g], f)
<1>1. /\ new \in Seq(FrameRecord) /\ Len(new) = Len(frames[g]) + 1 /\ Len(frames[g]) \in Nat
      /\ new[Len(frames[g]) + 1] = f /\ DOMAIN frames[g] = 1 .. Len(frames[g])
      /\ \A k \in 1 .. Len(frames[g]) : new[k] = frames[g][k]
  BY DEF CtxTypes
<1>2. frames' = [frames EXCEPT ![g] = new]
  OBVIOUS
<1> HIDE DEF new
<1> QED  BY <1>1, <1>2 DEF CtxTypes

(* A context whose gas or use is changed.                                  *)
LEMMA UpdateOK ==
    ASSUME NEW r \in LiveCtx, NEW n \in Nat
    PROVE  /\ [r EXCEPT !.gas = n] \in LiveCtx /\ [r EXCEPT !.used = n] \in LiveCtx
           /\ [r EXCEPT !.gas = n].gas = n /\ [r EXCEPT !.gas = n].used = r.used
           /\ [r EXCEPT !.used = n].used = n /\ [r EXCEPT !.used = n].gas = r.gas
           /\ [r EXCEPT !.gas = n].setup = r.setup /\ [r EXCEPT !.used = n].setup = r.setup
           /\ [r EXCEPT !.gas = n].status = "live" /\ [r EXCEPT !.used = n].status = "live"
BY DEF LiveCtx

LEMMA StatusOK ==
    ASSUME CtxTypes, NEW c \in DOMAIN ctxs
    PROVE  (ctxs[c].status = "live" <=> Live(c)) /\ (ctxs[c] \in GoneCtx <=> ~Live(c))
BY DEF CtxTypes, Live, LiveCtx, GoneCtx

LEMMA SetOK ==
    ASSUME CtxTypes, NEW c, Live(c), NEW r \in LiveCtx, ctxs' = [ctxs EXCEPT ![c] = r]
    PROVE  /\ ctxs' \in Seq(LiveCtx \cup GoneCtx) /\ DOMAIN ctxs' = DOMAIN ctxs
           /\ ctxs'[c] = r /\ \A d \in DOMAIN ctxs : d # c => ctxs'[d] = ctxs[d]
           /\ \A d : Live(d) => Live(d)'
BY DEF CtxTypes, Live

-----------------------------------------------------------------------------
(* Compiled code or a callback uses n of the gas of the innermost call.    *)
LEMMA SpendOK ==
    ASSUME GasInv, NEW g \in Goroutines, frames[g] # <<>>, NEW f \in FrameRecord, NEW n \in Nat,
           NEW c, c = Ctx!Top(g).ctx, NEW new \in LiveCtx, new.used = ctxs[c].used + n,
           new.setup = ctxs[c].setup, f.ctx = c, f.gas = Ctx!Top(g).gas - n,
           Separate(f.op, f.runs, new.setup),
           ctxs' = [ctxs EXCEPT ![c] = new], frames' = Ctx!WithTop(g, f), UNCHANGED entering
    PROVE  GasInv'
<1> DEFINE innermost == Len(frames[g])
<1>1. CtxTypes /\ EntriesOK /\ InUseLive /\ UsedByOne /\ FramesOK /\ GasSpentOnce
  BY DEF GasInv, UseInv
<1>2. /\ innermost \in DOMAIN frames[g] /\ Ctx!Top(g) = frames[g][innermost]
      /\ c = frames[g][innermost].ctx /\ Live(c)
  BY <1>1, TopOK DEF InUseLive
<1>3. ctxs[c] \in LiveCtx /\ ctxs[c].used \in Nat
  BY <1>2 DEF Live, LiveCtx
<1>6. f.gas = frames[g][innermost].gas - n /\ f.gas \in Nat /\ frames[g][innermost].gas \in Nat
  BY <1>2, TopOK, <1>1 DEF FrameRecord
<1>7. /\ frames' \in [Goroutines -> Seq(FrameRecord)]
      /\ \A h \in Goroutines \ {g} : frames'[h] = frames[h]
      /\ DOMAIN frames'[g] = DOMAIN frames[g] /\ frames'[g][innermost] = f
      /\ \A k \in DOMAIN frames[g] : k # innermost => frames'[g][k] = frames[g][k]
  BY <1>1, WithTopOK
<1> HIDE DEF innermost
<1>8. /\ ctxs' \in Seq(LiveCtx \cup GoneCtx) /\ DOMAIN ctxs' = DOMAIN ctxs
      /\ ctxs'[c] = new /\ \A d \in DOMAIN ctxs : d # c => ctxs'[d] = ctxs[d]
      /\ \A d : Live(d) => Live(d)'
  BY <1>1, <1>2, SetOK DEF Live
<1>9. \A h \in Goroutines : /\ DOMAIN frames'[h] = DOMAIN frames[h]
                            /\ \A k \in DOMAIN frames[h] : frames'[h][k].ctx = frames[h][k].ctx
  BY <1>2, <1>6, <1>7
<1>10. CtxTypes' /\ EntriesOK' /\ InUseLive' /\ UsedByOne'
  <2>1. CtxTypes' /\ EntriesOK'
    BY <1>1, <1>7, <1>8 DEF CtxTypes, EntriesOK
  <2>2. InUseLive'
    BY <1>1, <1>8, <1>9 DEF InUseLive
  <2>3. UsedByOne'
    BY <1>1, <1>9 DEF UsedByOne
  <2> QED  BY <2>1, <2>2, <2>3
<1>11. FramesOK'
  <2> SUFFICES ASSUME NEW h \in Goroutines, NEW k \in DOMAIN frames[h]
               PROVE  LET e == frames'[h][k]  r == ctxs'[e.ctx] IN
                      e.gas + r.used = r.setup.limit /\ Separate(e.op, e.runs, r.setup)
    BY <1>9 DEF FramesOK
  <2>1. CASE h = g /\ k = innermost
    <3>1. frames[g][innermost].gas + ctxs[c].used = ctxs[c].setup.limit
      BY <1>1, <1>2 DEF FramesOK
    <3>2. f.gas + new.used = frames[g][innermost].gas + ctxs[c].used
      BY <1>3, <1>6
    <3>3. frames'[h][k] = f /\ ctxs'[c] = new
      BY <2>1, <1>7, <1>8
    <3> QED  BY <3>1, <3>2, <3>3
  <2>2. CASE h # g \/ k # innermost
    <3>1. frames'[h][k] = frames[h][k] /\ frames[h][k].ctx # c
      BY <1>1, <1>2, <1>7, <2>2 DEF UsedByOne
    <3>2. frames[h][k].ctx \in DOMAIN ctxs
      BY <1>1 DEF InUseLive, Live
    <3> QED  BY <3>1, <3>2, <1>1, <1>8 DEF FramesOK
  <2> QED  BY <2>1, <2>2
<1>12. GasSpentOnce'
  <2>1. \A d : Ctx!Running(d)' <=> Ctx!Running(d)
    BY <1>9 DEF Ctx!Running
  <2>2. Ctx!Running(c)
    BY <1>2 DEF Ctx!Running
  <2> QED  BY <1>1, <1>8, <2>1, <2>2 DEF GasSpentOnce, Ctx!GasSpentOnce
<1> QED  BY <1>10, <1>11, <1>12 DEF GasInv, UseInv

(* The innermost call returns and gives its gas back.                      *)
LEMMA ReturnOK ==
    ASSUME GasInv, NEW g \in Goroutines, frames[g] # <<>>, NEW c, c = Ctx!Top(g).ctx,
           NEW new \in LiveCtx, new.gas = Ctx!Top(g).gas, new.used = ctxs[c].used,
           new.setup = ctxs[c].setup, ctxs' = [ctxs EXCEPT ![c] = new],
           frames' = [frames EXCEPT ![g] = Ctx!Outer(g)], UNCHANGED entering
    PROVE  GasInv'
<1> DEFINE innermost == Len(frames[g])
<1>1. CtxTypes /\ EntriesOK /\ InUseLive /\ UsedByOne /\ FramesOK /\ GasSpentOnce
  BY DEF GasInv, UseInv
<1>2. /\ innermost \in DOMAIN frames[g] /\ Ctx!Top(g) = frames[g][innermost]
      /\ c = frames[g][innermost].ctx /\ Live(c)
  BY <1>1, TopOK DEF InUseLive
<1>3. /\ frames' \in [Goroutines -> Seq(FrameRecord)]
      /\ \A h \in Goroutines \ {g} : frames'[h] = frames[h]
      /\ DOMAIN frames'[g] = DOMAIN frames[g] \ {innermost}
      /\ \A k \in DOMAIN frames'[g] : frames'[g][k] = frames[g][k]
  BY <1>1, PopOK
<1> HIDE DEF innermost
<1>4. /\ ctxs' \in Seq(LiveCtx \cup GoneCtx) /\ DOMAIN ctxs' = DOMAIN ctxs
      /\ ctxs'[c] = new /\ \A d \in DOMAIN ctxs : d # c => ctxs'[d] = ctxs[d]
      /\ \A d : Live(d) => Live(d)'
  BY <1>1, <1>2, SetOK DEF Live
<1>5. \A h \in Goroutines : \A k \in DOMAIN frames'[h] :
          k \in DOMAIN frames[h] /\ frames'[h][k] = frames[h][k] /\ frames[h][k].ctx # c
  BY <1>1, <1>2, <1>3 DEF UsedByOne
<1>6. CtxTypes' /\ EntriesOK' /\ InUseLive' /\ UsedByOne'
  <2>1. CtxTypes' /\ EntriesOK'
    BY <1>1, <1>3, <1>4 DEF CtxTypes, EntriesOK
  <2>2. InUseLive'
    BY <1>1, <1>4, <1>5 DEF InUseLive
  <2>3. UsedByOne'
    BY <1>1, <1>5 DEF UsedByOne
  <2> QED  BY <2>1, <2>2, <2>3
<1>7. FramesOK'
  <2> SUFFICES ASSUME NEW h \in Goroutines, NEW k \in DOMAIN frames'[h]
               PROVE  LET e == frames'[h][k]  r == ctxs'[e.ctx] IN
                      e.gas + r.used = r.setup.limit /\ Separate(e.op, e.runs, r.setup)
    BY DEF FramesOK
  <2>1. frames[h][k].ctx \in DOMAIN ctxs
    BY <1>1, <1>5 DEF InUseLive, Live
  <2> QED  BY <2>1, <1>1, <1>4, <1>5 DEF FramesOK
<1>8. GasSpentOnce'
  <2>1. new.gas + new.used = new.setup.limit
    BY <1>1, <1>2 DEF FramesOK
  <2>2. ASSUME NEW d, d # c, ~Ctx!Running(d)' PROVE ~Ctx!Running(d)
    <3> SUFFICES ASSUME NEW h \in Goroutines, NEW k \in DOMAIN frames[h], frames[h][k].ctx = d
                 PROVE  FALSE
      BY DEF Ctx!Running
    <3>1. h # g \/ k # innermost
      BY <1>2, <2>2
    <3>2. k \in DOMAIN frames'[h] /\ frames'[h][k] = frames[h][k]
      BY <3>1, <1>3
    <3> QED  BY <2>2, <3>2 DEF Ctx!Running
  <2> QED  BY <1>1, <1>4, <2>1, <2>2 DEF GasSpentOnce, Ctx!GasSpentOnce
<1> QED  BY <1>6, <1>7, <1>8 DEF GasInv, UseInv

(* A goroutine leaves Module.Call and enters the compiled code.            *)
LEMMA EnterOK ==
    ASSUME GasInv, NEW g \in Goroutines, entering[g].in # "no", NEW f \in FrameRecord,
           f.ctx = entering[g].ctx, f.gas = ctxs[f.ctx].gas,
           Separate(f.op, f.runs, ctxs[f.ctx].setup),
           frames' = [frames EXCEPT ![g] = Append(@, f)], UNCHANGED ctxs, Leave(g)
    PROVE  GasInv'
<1> DEFINE next == Len(frames[g]) + 1
<1>1. CtxTypes /\ EntriesOK /\ InUseLive /\ UsedByOne /\ FramesOK /\ GasSpentOnce
  BY DEF GasInv, UseInv
<1>2. /\ frames' \in [Goroutines -> Seq(FrameRecord)]
      /\ \A h \in Goroutines \ {g} : frames'[h] = frames[h]
      /\ DOMAIN frames'[g] = DOMAIN frames[g] \cup {next} /\ next \notin DOMAIN frames[g]
      /\ frames'[g][next] = f
      /\ \A k \in DOMAIN frames[g] : frames'[g][k] = frames[g][k]
  BY <1>1, PushOK
<1> HIDE DEF next
<1>3. /\ EntriesOK' /\ entering'[g].in = "no"
      /\ \A h \in Goroutines \ {g} : entering'[h] = entering[h]
  BY <1>1, LeaveOK
<1>4. Live(f.ctx) /\ \A h \in Goroutines : \A k \in DOMAIN frames[h] : frames[h][k].ctx # f.ctx
  BY <1>1 DEF InUseLive, UsedByOne
<1>5. \A h \in Goroutines : \A k \in DOMAIN frames'[h] :
         \/ h = g /\ k = next /\ frames'[h][k] = f
         \/ k \in DOMAIN frames[h] /\ frames'[h][k] = frames[h][k]
  BY <1>2
<1>6. CtxTypes' /\ InUseLive' /\ UsedByOne'
  <2>1. CtxTypes'
    BY <1>1, <1>2 DEF CtxTypes
  <2>2. \A d : Live(d) => Live(d)'
    BY DEF Live
  <2>3. InUseLive'
    BY <1>1, <1>3, <1>4, <1>5, <2>2 DEF InUseLive
  <2>4. \A h \in Goroutines : entering'[h].in # "no" =>
            h # g /\ entering'[h] = entering[h] /\ entering[h].ctx # f.ctx
    BY <1>1, <1>3 DEF UsedByOne
  <2>5. UsedByOne'
    BY <1>1, <1>4, <1>5, <2>4 DEF UsedByOne
  <2> QED  BY <2>1, <2>3, <2>5
<1>7. f.gas + ctxs[f.ctx].used = ctxs[f.ctx].setup.limit
  <2>1. ~Ctx!Running(f.ctx) /\ f.ctx \in DOMAIN ctxs /\ ctxs[f.ctx].status = "live"
    BY <1>1, <1>4 DEF Ctx!Running, Live, LiveCtx
  <2> QED  BY <1>1, <2>1 DEF GasSpentOnce, Ctx!GasSpentOnce
<1>8. FramesOK'
  BY <1>1, <1>5, <1>7 DEF FramesOK
<1>9. GasSpentOnce'
  <2>1. ASSUME NEW d, Ctx!Running(d) PROVE Ctx!Running(d)'
    BY <2>1, <1>2 DEF Ctx!Running
  <2> QED  BY <1>1, <2>1 DEF GasSpentOnce, Ctx!GasSpentOnce
<1> QED  BY <1>3, <1>6, <1>8, <1>9 DEF GasInv, UseInv

(* A call begins with a context that nothing uses.                         *)
LEMMA BeginOK ==
    ASSUME GasInv, NEW g \in Goroutines, NEW c, Free(c), NEW e \in Entry, e.ctx = c,
           entering' = [entering EXCEPT ![g] = e], entering[g].in = "no",
           UNCHANGED <<ctxs, frames>>
    PROVE  GasInv'
<1>1. CtxTypes /\ EntriesOK /\ InUseLive /\ UsedByOne /\ FramesOK /\ GasSpentOnce
  BY DEF GasInv, UseInv
<1>2. /\ EntriesOK' /\ entering'[g] = e
      /\ \A h \in Goroutines \ {g} : entering'[h] = entering[h]
  BY <1>1 DEF EntriesOK
<1>3. /\ Live(c) /\ \A h \in Goroutines : entering[h].ctx # c
      /\ \A h \in Goroutines : \A k \in DOMAIN frames[h] : frames[h][k].ctx # c
  BY <1>1, StatusOK DEF Free, Ctx!Running
<1>4. CtxTypes' /\ InUseLive' /\ UsedByOne'
  BY <1>1, <1>2, <1>3 DEF CtxTypes, InUseLive, UsedByOne, Live
<1>5. FramesOK' /\ GasSpentOnce'
  BY <1>1 DEF FramesOK, GasSpentOnce, Ctx!GasSpentOnce, Ctx!Running
<1> QED  BY <1>2, <1>4, <1>5 DEF GasInv, UseInv

(* A goroutine moves on inside Module.Call, or leaves it without a call.   *)
LEMMA MoveOK ==
    ASSUME GasInv, EntriesOK', UNCHANGED <<ctxs, frames>>,
           \A h \in Goroutines : entering'[h].in # "no" =>
               entering[h].in # "no" /\ entering'[h].ctx = entering[h].ctx
    PROVE  GasInv'
BY DEF GasInv, UseInv, CtxTypes, InUseLive, UsedByOne, Live, FramesOK, GasSpentOnce,
       Ctx!GasSpentOnce, Ctx!Running

(* A context is made, or construction fails.                               *)
LEMMA NewOK ==
    ASSUME GasInv, NEW r \in LiveCtx \cup GoneCtx,
           r \in LiveCtx => r.gas + r.used = r.setup.limit,
           ctxs' = Append(ctxs, r), UNCHANGED <<frames, entering>>
    PROVE  GasInv'
<1>1. CtxTypes /\ EntriesOK /\ InUseLive /\ UsedByOne /\ FramesOK /\ GasSpentOnce
  BY DEF GasInv, UseInv
<1>2. /\ ctxs' \in Seq(LiveCtx \cup GoneCtx) /\ DOMAIN ctxs' = DOMAIN ctxs \cup {Len(ctxs) + 1}
      /\ ctxs'[Len(ctxs) + 1] = r /\ \A d \in DOMAIN ctxs : ctxs'[d] = ctxs[d]
  BY <1>1 DEF CtxTypes
<1>3. \A d : Live(d) => Live(d)'
  BY <1>2 DEF Live
<1>4. CtxTypes' /\ EntriesOK' /\ InUseLive' /\ UsedByOne'
  BY <1>1, <1>2, <1>3 DEF CtxTypes, EntriesOK, InUseLive, UsedByOne
<1>5. FramesOK'
  BY <1>1, <1>2 DEF FramesOK, InUseLive, Live
<1>6. r.status = "live" => r \in LiveCtx
  BY DEF GoneCtx
<1>7. GasSpentOnce'
  BY <1>1, <1>2, <1>6 DEF GasSpentOnce, Ctx!GasSpentOnce, Ctx!Running
<1> QED  BY <1>4, <1>5, <1>7 DEF GasInv, UseInv

(* A context that nothing uses is disposed.                                *)
LEMMA DisposedOK ==
    ASSUME GasInv, NEW c, Free(c), NEW r \in GoneCtx, ctxs' = [ctxs EXCEPT ![c] = r],
           UNCHANGED <<frames, entering>>
    PROVE  GasInv'
<1>1. CtxTypes /\ EntriesOK /\ InUseLive /\ UsedByOne /\ FramesOK /\ GasSpentOnce
  BY DEF GasInv, UseInv
<1>2. /\ c \in DOMAIN ctxs /\ \A h \in Goroutines : entering[h].ctx # c
      /\ \A h \in Goroutines : \A k \in DOMAIN frames[h] : frames[h][k].ctx # c
  BY DEF Free, Ctx!Running
<1>3. /\ ctxs' \in Seq(LiveCtx \cup GoneCtx) /\ DOMAIN ctxs' = DOMAIN ctxs
      /\ ctxs'[c] = r /\ \A d \in DOMAIN ctxs : d # c => ctxs'[d] = ctxs[d]
  BY <1>1, <1>2 DEF CtxTypes
<1>4. \A d : Live(d) /\ d # c => Live(d)'
  BY <1>3 DEF Live
<1>5. CtxTypes' /\ EntriesOK' /\ InUseLive' /\ UsedByOne'
  BY <1>1, <1>2, <1>3, <1>4 DEF CtxTypes, EntriesOK, InUseLive, UsedByOne
<1>6. FramesOK'
  BY <1>1, <1>2, <1>3 DEF FramesOK, InUseLive, Live
<1>7. r.status # "live"
  BY DEF GoneCtx
<1>8. GasSpentOnce'
  BY <1>1, <1>3, <1>7 DEF GasSpentOnce, Ctx!GasSpentOnce, Ctx!Running
<1> QED  BY <1>5, <1>6, <1>8 DEF GasInv, UseInv

-----------------------------------------------------------------------------
(* What the program holds belongs to some context, and to a live one what  *)
(* Dispose will release.                                                   *)
HeldOK ==
    /\ held \subseteq {"handle", "struct", "stack"} \X DOMAIN ctxs
    /\ ReleasedOnce

LEMMA OwnOK ==
    ASSUME NEW c, NEW owned, NEW kinds \in SUBSET {"handle", "struct"}
    PROVE  /\ Ctx!Own(c, owned, kinds) \subseteq {"handle", "struct", "stack"} \X {c}
           /\ \A r \in Ctx!Own(c, owned, kinds) : r[2] = c
           /\ \A kind \in kinds : <<kind, c>> \in Ctx!Own(c, owned, kinds)
BY DEF Ctx!Own

(* A step that may use the handle or the struct of a live context, and     *)
(* neither makes nor disposes a context.                                   *)
LEMMA UseHeldOK ==
    ASSUME CtxTypes, HeldOK, UNCHANGED held, DOMAIN ctxs' = DOMAIN ctxs,
           \A d \in DOMAIN ctxs :
               ctxs'[d].status = ctxs[d].status /\ (Live(d) => ctxs'[d].setup = ctxs[d].setup),
           \/ UNCHANGED misused
           \/ \E kind \in {"handle", "struct"}, c \in DOMAIN ctxs :
                  Live(c) /\ Ctx!Uses(<<kind, c>>)
    PROVE  HeldOK'
<1>1. ~misused'
  <2>1. ~misused
    BY DEF HeldOK, ReleasedOnce, Ctx!ReleasedOnce
  <2>2. ASSUME NEW kind \in {"handle", "struct"}, NEW c \in DOMAIN ctxs, Live(c),
               Ctx!Uses(<<kind, c>>)
        PROVE  ~misused'
    <3>1. <<kind, c>> \in Ctx!Released(c)
      BY OwnOK DEF Ctx!Released
    <3>2. Ctx!Released(c) \subseteq held
      BY <2>2, StatusOK DEF HeldOK, ReleasedOnce, Ctx!ReleasedOnce
    <3> QED  BY <2>1, <2>2, <3>1, <3>2 DEF Ctx!Uses
  <2> QED  BY <2>1, <2>2
<1>2. \A d \in DOMAIN ctxs : ctxs[d].status = "live" => Ctx!Released(d)' = Ctx!Released(d)
  BY StatusOK DEF Ctx!Released, Ctx!Own
<1> QED  BY <1>1, <1>2 DEF HeldOK, ReleasedOnce, Ctx!ReleasedOnce

LEMMA AddHeldOK ==
    ASSUME CtxTypes, HeldOK, NEW r, NEW s, NEW kinds \in SUBSET {"handle", "struct"}, NEW c,
           c = Len(ctxs) + 1, ctxs' = Append(ctxs, r), UNCHANGED misused,
           held' = held \cup Ctx!Own(c, s.owned, kinds), r.status # "disposed",
           r.status = "live" => r.setup = s /\ kinds = {"handle", "struct"}
    PROVE  HeldOK'
<1>1. c \notin DOMAIN ctxs /\ \A x \in held : x[2] \in DOMAIN ctxs
  BY DEF CtxTypes, HeldOK
<1>2. /\ DOMAIN ctxs' = DOMAIN ctxs \cup {c} /\ ctxs'[c] = r
      /\ \A d \in DOMAIN ctxs : ctxs'[d] = ctxs[d]
  BY DEF CtxTypes
<1>3. held' \subseteq {"handle", "struct", "stack"} \X DOMAIN ctxs'
  <2> DEFINE Kinds == {"handle", "struct", "stack"}
             own == Ctx!Own(c, s.owned, kinds)
  <2>1. own \subseteq Kinds \X {c} /\ held \subseteq Kinds \X DOMAIN ctxs
    BY OwnOK DEF HeldOK
  <2>2. held' = held \cup own /\ c \in DOMAIN ctxs' /\ DOMAIN ctxs \subseteq DOMAIN ctxs'
    BY <1>2
  <2> HIDE DEF Kinds, own
  <2>3. held' \subseteq Kinds \X DOMAIN ctxs'
    BY <2>1, <2>2
  <2> QED  BY <2>3 DEF Kinds
<1>4. ~misused'
  BY DEF HeldOK, ReleasedOnce, Ctx!ReleasedOnce
<1>5. {x \in held' : x[2] = c} = Ctx!Own(c, s.owned, kinds)
  BY <1>1, OwnOK
<1>6. \A d \in DOMAIN ctxs : {x \in held' : x[2] = d} = {x \in held : x[2] = d}
  BY <1>1, OwnOK
<1>7. ASSUME NEW d \in DOMAIN ctxs'
      PROVE  /\ ctxs'[d].status = "live" => {x \in held' : x[2] = d} = Ctx!Released(d)'
             /\ ctxs'[d].status = "disposed" => {x \in held' : x[2] = d} = {}
  <2>1. CASE d = c
    BY <2>1, <1>2, <1>5 DEF Ctx!Released
  <2>2. CASE d \in DOMAIN ctxs
    <3>1. Ctx!Released(d)' = Ctx!Released(d)
      BY <2>2, <1>2 DEF Ctx!Released, Ctx!Own
    <3> QED  BY <2>2, <3>1, <1>2, <1>6 DEF HeldOK, ReleasedOnce, Ctx!ReleasedOnce
  <2> QED  BY <2>1, <2>2, <1>2
<1> QED  BY <1>3, <1>4, <1>7 DEF HeldOK, ReleasedOnce, Ctx!ReleasedOnce

(* NewCallCtx, of which callctx_init may fail.                             *)
LEMMA NewCtxOK ==
    ASSUME GasInv, HeldOK, NEW s \in Setups, Ctx!NewCallCtx(s), UNCHANGED entering
    PROVE  GasInv' /\ HeldOK'
<1> DEFINE c == Len(ctxs) + 1
<1>1. CtxTypes /\ UNCHANGED <<misused, frames>>
  BY DEF GasInv, UseInv, Ctx!NewCallCtx
<1>2. CASE /\ ctxs' = Append(ctxs, Ctx!Fresh(s))
           /\ held' = held \cup Ctx!Own(c, s.owned, {"handle", "struct"})
  <2>1. /\ Ctx!Fresh(s) \in LiveCtx /\ Ctx!Fresh(s).gas + Ctx!Fresh(s).used = s.limit
        /\ Ctx!Fresh(s).setup = s /\ Ctx!Fresh(s).status # "disposed"
    BY ContextAssumption DEF Ctx!Fresh, LiveCtx
  <2> HIDE DEF c
  <2>2. GasInv'
    BY <1>1, <1>2, <2>1, NewOK
  <2>3. HeldOK'
    BY <1>1, <1>2, <2>1, AddHeldOK DEF c
  <2> QED  BY <2>2, <2>3
<1>3. CASE /\ ctxs' = Append(ctxs, Ctx!Gone("failed"))
           /\ held' = held \cup Ctx!Own(c, s.owned, {"handle"})
  <2>1. /\ Ctx!Gone("failed") \in GoneCtx /\ Ctx!Gone("failed") \notin LiveCtx
        /\ Ctx!Gone("failed").status = "failed"
    BY DEF Ctx!Gone, GoneCtx, LiveCtx
  <2> HIDE DEF c
  <2>2. GasInv'
    BY <1>1, <1>3, <2>1, NewOK
  <2>3. HeldOK'
    BY <1>1, <1>3, <2>1, AddHeldOK DEF c
  <2> QED  BY <2>2, <2>3
<1> QED  BY <1>2, <1>3 DEF Ctx!NewCallCtx

LEMMA DisposeHeldOK ==
    ASSUME CtxTypes, HeldOK, NEW c, Live(c), Ctx!Dispose(c)
    PROVE  HeldOK'
<1>1. /\ ctxs' = [ctxs EXCEPT ![c] = Ctx!Gone("disposed")]
      /\ held' = held \ Ctx!Released(c) /\ c \in DOMAIN ctxs
      /\ misused' = (misused \/ ~(Ctx!Released(c) \subseteq held))
  BY DEF Ctx!Dispose, Live
<1>2. /\ ~misused /\ {x \in held : x[2] = c} = Ctx!Released(c)
  BY StatusOK DEF Live, HeldOK, ReleasedOnce, Ctx!ReleasedOnce
<1>3. /\ DOMAIN ctxs' = DOMAIN ctxs /\ ctxs'[c].status = "disposed"
      /\ \A d \in DOMAIN ctxs : d # c => ctxs'[d] = ctxs[d]
  BY <1>1 DEF CtxTypes, Ctx!Gone
<1>4. ~misused'
  BY <1>1, <1>2
<1>5. /\ {x \in held' : x[2] = c} = {}
      /\ \A d \in DOMAIN ctxs : d # c => {x \in held' : x[2] = d} = {x \in held : x[2] = d}
  BY <1>1, <1>2
<1>6. \A d \in DOMAIN ctxs : d # c => Ctx!Released(d)' = Ctx!Released(d)
  BY <1>3 DEF Ctx!Released, Ctx!Own
<1> QED  BY <1>1, <1>3, <1>4, <1>5, <1>6 DEF HeldOK, ReleasedOnce, Ctx!ReleasedOnce

-----------------------------------------------------------------------------
(* The steps of the host.                                                  *)
CtxInv == GasInv /\ HeldOK

LEMMA DisposeCtxOK ==
    ASSUME CtxInv, NEW c, Free(c), Ctx!Dispose(c), UNCHANGED entering
    PROVE  CtxInv'
<1>1. CtxTypes /\ GasInv /\ HeldOK /\ Live(c)
  BY StatusOK DEF CtxInv, GasInv, UseInv, Free
<1>2. /\ ctxs' = [ctxs EXCEPT ![c] = Ctx!Gone("disposed")] /\ UNCHANGED frames
  BY DEF Ctx!Dispose
<1>3. Ctx!Gone("disposed") \in GoneCtx
  BY DEF Ctx!Gone, GoneCtx
<1>4. GasInv'
  BY <1>1, <1>2, <1>3, DisposedOK
<1>5. HeldOK'
  BY <1>1, DisposeHeldOK
<1> QED  BY <1>4, <1>5 DEF CtxInv

LEMMA NoOpSeparate == ASSUME NEW s PROVE Separate(Ctx!NoOp, "code", s)
BY DEF Separate, Ctx!NoOp, Ctx!DebugOperation

(* A goroutine enters the compiled code, with the context of its call.     *)
LEMMA EntersOK ==
    ASSUME CtxInv, NEW g \in Goroutines, entering[g].in # "no",
           Ctx!Enter(g, entering[g].ctx), Leave(g)
    PROVE  CtxInv'
<1> DEFINE c == entering[g].ctx
           f == [ctx |-> c, gas |-> ctxs[c].gas, at |-> "code", op |-> Ctx!NoOp, runs |-> "code"]
<1>1. GasInv /\ CtxTypes /\ HeldOK /\ Live(c)
  BY DEF CtxInv, GasInv, UseInv, InUseLive
<1>2. /\ frames' = [frames EXCEPT ![g] = Append(@, f)] /\ UNCHANGED <<ctxs, held>>
      /\ Ctx!Uses(<<"struct", c>>)
  BY DEF Ctx!Enter
<1>3. /\ f \in FrameRecord /\ f.ctx = c /\ f.gas = ctxs[f.ctx].gas
      /\ Separate(f.op, f.runs, ctxs[f.ctx].setup)
  <2>1. c \in Nat /\ ctxs[c].gas \in Nat /\ c \in DOMAIN ctxs
    BY <1>1 DEF CtxTypes, Live, LiveCtx
  <2> HIDE DEF c
  <2>2. f \in FrameRecord
    BY <2>1 DEF FrameRecord, Ats, Ops, Runs
  <2>3. f.op = Ctx!NoOp /\ f.runs = "code"
    OBVIOUS
  <2> HIDE DEF f
  <2>4. Separate(f.op, f.runs, ctxs[f.ctx].setup)
    BY <2>3, NoOpSeparate
  <2> QED  BY <2>2, <2>4 DEF f
<1> HIDE DEF f, c
<1>4. GasInv'
  BY <1>1, <1>2, <1>3, EnterOK DEF c
<1>5. HeldOK'
  BY <1>1, <1>2, UseHeldOK DEF Live
<1> QED  BY <1>4, <1>5 DEF CtxInv

(* RunBinding tells debug operations from others by the missing buffer.    *)
LEMMA RunBindingOK ==
    ASSUME NEW s \in Setups, NEW op \in Operations
    PROVE  /\ Ctx!RunBinding(s, op) \in Ctx!Callbacks \cup {"nothing", "unbound"}
           /\ Separate(op, Ctx!RunBinding(s, op), s)
<1>1. /\ op.pc \in Nat /\ op.in \in Nat /\ op.words \in Nat
      /\ op.debug \in BOOLEAN /\ s.debug \in BOOLEAN
  BY ContextAssumption
<1>2. (op.words = 0 /\ Ctx!InputsLen(op) > 0) <=> Ctx!DebugOperation(op)
  <2>1. CASE op.debug
    <3>1. Ctx!InputsLen(op) = op.pc % 65536 /\ op.words = 0
      BY <1>1, <2>1, ContextAssumption DEF Ctx!InputsLen
    <3>2. op.pc % 65536 > 0 <=> op.pc % 65536 # 0
      BY <1>1
    <3> QED  BY <2>1, <3>1, <3>2 DEF Ctx!DebugOperation
  <2>2. CASE ~op.debug
    <3>1. op.words = 0 => ~(Ctx!InputsLen(op) > 0)
      BY <1>1, <2>2, ContextAssumption DEF Ctx!InputsLen
    <3> QED  BY <2>2, <3>1 DEF Ctx!DebugOperation
  <2> QED  BY <1>1, <2>1, <2>2
<1>3. CASE Ctx!DebugOperation(op)
  BY <1>1, <1>2, <1>3 DEF Separate, Ctx!RunBinding, Ctx!Callbacks
<1>4. CASE ~Ctx!DebugOperation(op)
  BY <1>2, <1>4 DEF Separate, Ctx!RunBinding, Ctx!Callbacks
<1> QED  BY <1>3, <1>4

Changed(t, n, o, u, a) == [t EXCEPT !.gas = n, !.op = o, !.runs = u, !.at = a]
LEMMA ChangedOK ==
    ASSUME NEW t \in FrameRecord, NEW n \in Nat, NEW o \in Ops,
           NEW u \in Runs, NEW a \in Ats
    PROVE  LET f == Changed(t, n, o, u, a) IN
           f \in FrameRecord /\ f.ctx = t.ctx /\ f.gas = n /\ f.op = o /\ f.runs = u
BY DEF FrameRecord, Changed

(* Compiled code reaches a callback.                                       *)
LEMMA OperateOK ==
    ASSUME CtxInv, NEW g \in Goroutines, Ctx!Operate(g), UNCHANGED entering
    PROVE  CtxInv'
<1> DEFINE top == Ctx!Top(g)
           c == top.ctx
           new == [ctxs[c] EXCEPT !.used = @ + 1]
<1>1. GasInv /\ CtxTypes /\ HeldOK /\ frames[g] # <<>> /\ top.gas > 0
  BY DEF CtxInv, GasInv, UseInv, Ctx!Operate, Ctx!InFrame
<1>2. top \in FrameRecord /\ Live(c)
  <2>1. top = frames[g][Len(frames[g])] /\ Len(frames[g]) \in DOMAIN frames[g] /\ top \in FrameRecord
    BY <1>1, TopOK
  <2> QED  BY <1>1, <2>1 DEF GasInv, UseInv, InUseLive
<1>3. new \in LiveCtx /\ new.used = ctxs[c].used + 1 /\ new.setup = ctxs[c].setup
      /\ new.status = "live"
  <2>1. ctxs[c] \in LiveCtx /\ ctxs[c].used + 1 \in Nat
    BY <1>2 DEF Live, LiveCtx
  <2> HIDE DEF c
  <2> QED  BY <2>1, UpdateOK
<1>4. PICK op \in Operations : LET runs == Ctx!RunBinding(ctxs[c].setup, op) IN
        /\ ctxs' = [ctxs EXCEPT ![c].used = @ + 1]
        /\ frames' = Ctx!WithTop(g, [top EXCEPT
                !.gas = @ - 1,
                !.op = op, !.runs = runs,
                !.at = CASE runs = "nothing" -> "code" [] runs = "unbound" -> "failed"
                         [] OTHER -> "callback"])
        /\ Ctx!Uses(<<"handle", c>>)
  BY DEF Ctx!Operate
<1> DEFINE runs == Ctx!RunBinding(ctxs[c].setup, op)
           at2 == CASE runs = "nothing" -> "code" [] runs = "unbound" -> "failed"
                    [] OTHER -> "callback"
           gas2 == top.gas - 1
           f == Changed(top, gas2, op, runs, at2)
<1>5. /\ ctxs' = [ctxs EXCEPT ![c] = new] /\ frames' = Ctx!WithTop(g, f)
      /\ Ctx!Uses(<<"handle", c>>) /\ UNCHANGED held
  BY <1>4 DEF Ctx!Operate, Changed
<1>6. /\ gas2 \in Nat /\ op \in Ops /\ runs \in Runs /\ at2 \in Ats
      /\ Separate(op, runs, new.setup)
  <2>1. gas2 \in Nat
    BY <1>1, <1>2 DEF FrameRecord
  <2>2. ctxs[c].setup \in Setups /\ new.setup = ctxs[c].setup
    BY <1>2, <1>3 DEF Live, LiveCtx
  <2> HIDE DEF c, new
  <2>3. runs \in Ctx!Callbacks \cup {"nothing", "unbound"} /\ Separate(op, runs, new.setup)
    BY <2>2, RunBindingOK
  <2> HIDE DEF runs
  <2> QED  BY <2>1, <2>3 DEF Ctx!Callbacks, Ops, Runs, Ats
<1> HIDE DEF runs, at2, gas2
<1>7. /\ f \in FrameRecord /\ f.ctx = c /\ f.gas = gas2
      /\ Separate(f.op, f.runs, new.setup)
  <2> HIDE DEF new
  <2>1. f \in FrameRecord /\ f.ctx = top.ctx /\ f.gas = gas2 /\ f.op = op /\ f.runs = runs
    <3> HIDE DEF top
    <3> QED  BY <1>2, <1>6, ChangedOK
  <2> HIDE DEF f
  <2> QED  BY <2>1, <1>6
<1> HIDE DEF f, new
<1>8. GasInv'
  <2>1. f.gas = Ctx!Top(g).gas - 1
    BY <1>7 DEF gas2
  <2> QED  BY <1>1, <1>3, <1>5, <1>7, <2>1, SpendOK
<1> HIDE DEF c
<1>9. HeldOK'
  <2>1. /\ DOMAIN ctxs' = DOMAIN ctxs /\ ctxs'[c] = new
        /\ \A d \in DOMAIN ctxs : d # c => ctxs'[d] = ctxs[d]
    BY <1>1, <1>2, <1>5 DEF CtxTypes, Live
  <2>2. ctxs[c].status = "live" /\ c \in DOMAIN ctxs
    BY <1>2 DEF Live, LiveCtx
  <2> QED  BY <1>1, <1>2, <1>3, <1>5, <2>1, <2>2, UseHeldOK
<1> QED  BY <1>8, <1>9 DEF CtxInv

(* A callback gives back to the code.                                      *)
LEMMA CallbackOK ==
    ASSUME CtxInv, NEW g \in Goroutines, Ctx!CallbackReturns(g), UNCHANGED entering
    PROVE  CtxInv'
<1> DEFINE top == Ctx!Top(g)
           c == top.ctx
<1>1. GasInv /\ CtxTypes /\ HeldOK /\ frames[g] # <<>>
  BY DEF CtxInv, GasInv, UseInv, Ctx!CallbackReturns, Ctx!InFrame
<1>2. top \in FrameRecord /\ top.gas \in Nat /\ Live(c)
  <2>1. top = frames[g][Len(frames[g])] /\ Len(frames[g]) \in DOMAIN frames[g] /\ top \in FrameRecord
    BY <1>1, TopOK
  <2>2. top \in FrameRecord /\ Live(c)
    BY <1>1, <2>1 DEF GasInv, UseInv, InUseLive
  <2> QED  BY <2>2 DEF FrameRecord
<1>3. PICK use \in {0, 1} \cap (0 .. top.gas), ok \in BOOLEAN :
        /\ ctxs' = [ctxs EXCEPT ![c].used = @ + use]
        /\ frames' = Ctx!WithTop(g, [top EXCEPT !.gas = @ - use, !.op = Ctx!NoOp,
                                       !.runs = "code", !.at = IF ok THEN "code" ELSE "failed"])
  BY DEF Ctx!CallbackReturns
<1> DEFINE new == [ctxs[c] EXCEPT !.used = @ + use]
           gas2 == top.gas - use
           at2 == IF ok THEN "code" ELSE "failed"
           f == Changed(top, gas2, Ctx!NoOp, "code", at2)
<1>4. new \in LiveCtx /\ new.used = ctxs[c].used + use /\ new.setup = ctxs[c].setup
      /\ new.status = "live"
  <2>1. ctxs[c] \in LiveCtx /\ ctxs[c].used + use \in Nat
    BY <1>2 DEF Live, LiveCtx
  <2> HIDE DEF c
  <2> QED  BY <2>1, UpdateOK
<1>5. /\ ctxs' = [ctxs EXCEPT ![c] = new] /\ frames' = Ctx!WithTop(g, f)
      /\ UNCHANGED <<held, misused>>
  BY <1>3 DEF Ctx!CallbackReturns, Changed
<1>6. use \in Nat /\ gas2 \in Nat /\ at2 \in Ats /\ Ctx!NoOp \in Ops /\ "code" \in Runs
  BY <1>2 DEF Ats, Ops, Runs
<1> HIDE DEF gas2, at2
<1>7. /\ f \in FrameRecord /\ f.ctx = c /\ f.gas = gas2
      /\ Separate(f.op, f.runs, new.setup)
  <2> HIDE DEF new
  <2>1. /\ f \in FrameRecord /\ f.ctx = top.ctx /\ f.gas = gas2
        /\ f.op = Ctx!NoOp /\ f.runs = "code"
    <3> HIDE DEF top
    <3> QED  BY <1>2, <1>6, ChangedOK
  <2> HIDE DEF f
  <2> QED  BY <2>1, NoOpSeparate
<1> HIDE DEF f, new
<1>8. GasInv'
  <2>1. f.gas = Ctx!Top(g).gas - use
    BY <1>7 DEF gas2
  <2> QED  BY <1>1, <1>4, <1>5, <1>6, <1>7, <2>1, SpendOK
<1> HIDE DEF c
<1>9. HeldOK'
  <2>1. /\ DOMAIN ctxs' = DOMAIN ctxs /\ ctxs'[c] = new
        /\ \A d \in DOMAIN ctxs : d # c => ctxs'[d] = ctxs[d]
    BY <1>1, <1>2, <1>5 DEF CtxTypes, Live
  <2>2. ctxs[c].status = "live" /\ c \in DOMAIN ctxs
    BY <1>2 DEF Live, LiveCtx
  <2> QED  BY <1>1, <1>2, <1>4, <1>5, <2>1, <2>2, UseHeldOK
<1> QED  BY <1>8, <1>9 DEF CtxInv

(* A compiled function returns.                                            *)
LEMMA FunctionReturnsOK ==
    ASSUME CtxInv, NEW g \in Goroutines, Ctx!Return(g), UNCHANGED entering
    PROVE  CtxInv'
<1> DEFINE top == Ctx!Top(g)
           c == top.ctx
           new == [ctxs[c] EXCEPT !.gas = top.gas]
<1>1. GasInv /\ CtxTypes /\ HeldOK /\ frames[g] # <<>>
  BY DEF CtxInv, GasInv, UseInv, Ctx!Return, Ctx!InFrame
<1>2. top.gas \in Nat /\ Live(c)
  <2>1. top = frames[g][Len(frames[g])] /\ Len(frames[g]) \in DOMAIN frames[g] /\ top \in FrameRecord
    BY <1>1, TopOK
  <2> QED  BY <1>1, <2>1 DEF GasInv, UseInv, InUseLive, FrameRecord
<1>3. new \in LiveCtx /\ new.gas = top.gas /\ new.used = ctxs[c].used
      /\ new.setup = ctxs[c].setup /\ new.status = "live"
  <2>1. ctxs[c] \in LiveCtx
    BY <1>2 DEF Live
  <2> HIDE DEF top
  <2> QED  BY <1>2, <2>1, UpdateOK
<1>4. /\ ctxs' = [ctxs EXCEPT ![c] = new] /\ frames' = [frames EXCEPT ![g] = Ctx!Outer(g)]
      /\ UNCHANGED held /\ Ctx!Uses(<<"struct", c>>)
  BY DEF Ctx!Return
<1> HIDE DEF new
<1>5. GasInv'
  BY <1>1, <1>3, <1>4, ReturnOK
<1> HIDE DEF c, top
<1>6. HeldOK'
  <2>1. /\ DOMAIN ctxs' = DOMAIN ctxs /\ ctxs'[c] = new
        /\ \A d \in DOMAIN ctxs : d # c => ctxs'[d] = ctxs[d]
    BY <1>1, <1>2, <1>4 DEF CtxTypes, Live
  <2>2. ctxs[c].status = "live" /\ c \in DOMAIN ctxs
    BY <1>2 DEF Live, LiveCtx
  <2> QED  BY <1>1, <1>2, <1>3, <1>4, <2>1, <2>2, UseHeldOK
<1> QED  BY <1>5, <1>6 DEF CtxInv

(* Steps that change no context and no frame.                              *)
LEMMA OtherOK ==
    ASSUME CtxInv, UNCHANGED callvars, EntriesOK',
           \A h \in Goroutines : entering'[h].in # "no" =>
               entering[h].in # "no" /\ entering'[h].ctx = entering[h].ctx
    PROVE  CtxInv'
<1>1. UNCHANGED <<ctxs, frames, held, misused>> /\ GasInv /\ HeldOK
  BY DEF callvars, CtxInv
<1>2. GasInv'
  BY <1>1, MoveOK
<1>3. HeldOK'
  BY <1>1 DEF HeldOK, ReleasedOnce, Ctx!ReleasedOnce, Ctx!Released, Ctx!Own
<1> QED  BY <1>2, <1>3 DEF CtxInv

LEMMA LeaveCtxOK ==
    ASSUME CtxInv, NEW g \in Goroutines, UNCHANGED callvars,
           Leave(g) \/ (entering[g].in # "no" /\ \E s \in Places : MoveTo(g, s))
    PROVE  CtxInv'
<1>1. EntriesOK
  BY DEF CtxInv, GasInv, UseInv
<1>2. CASE Leave(g)
  BY <1>1, <1>2, LeaveOK, OtherOK
<1>3. CASE entering[g].in # "no" /\ \E s \in Places : MoveTo(g, s)
  BY <1>1, <1>3, MoveToOK, OtherOK
<1> QED  BY <1>2, <1>3

LEMMA CallsOK ==
    ASSUME CtxInv, NEW g \in Goroutines, CallEngine(g) \/ CallLookup(g) \/ CallStore(g)
    PROVE  CtxInv'
<1>1. "lookup" \in Places /\ "store" \in Places /\ entering[g].in # "no"
  BY DEF Places, CallEngine, CallLookup, CallStore, In
<1>2. CASE UNCHANGED callvars /\ (Leave(g) \/ MoveTo(g, "lookup") \/ MoveTo(g, "store"))
  BY <1>1, <1>2, LeaveCtxOK
<1>3. CASE Ctx!Enter(g, entering[g].ctx) /\ Leave(g)
  BY <1>1, <1>3, EntersOK
<1>4. CASE CallEngine(g)
  BY <1>2, <1>4 DEF CallEngine
<1>5. CASE CallLookup(g)
  BY <1>2, <1>3, <1>5 DEF CallLookup
<1>6. CASE CallStore(g)
  BY <1>2, <1>3, <1>6 DEF CallStore
<1> QED  BY <1>4, <1>5, <1>6

LEMMA BeginsOK ==
    ASSUME CtxInv, NEW g \in Goroutines, NEW c \in 1 .. MaxContexts, NEW name \in Names,
           CallBegins(g, c, name)
    PROVE  CtxInv'
<1> DEFINE e == [in |-> "engine", ctx |-> c, name |-> name]
<1>1. e \in Entry /\ e.ctx = c
  <2>1. c \in Int
    BY ContextAssumption
  <2>2. "engine" \in Places /\ name \in Names \cup {""}
    BY DEF Places
  <2> QED  BY <2>1, <2>2 DEF Entry
<1>2. /\ entering' = [entering EXCEPT ![g] = e] /\ entering[g].in = "no" /\ Free(c)
      /\ UNCHANGED <<ctxs, frames, held, misused>> /\ GasInv /\ HeldOK
  BY DEF CallBegins, In, callvars, CtxInv
<1> HIDE DEF e
<1>3. GasInv'
  BY <1>1, <1>2, BeginOK
<1>4. HeldOK'
  BY <1>2 DEF HeldOK, ReleasedOnce, Ctx!ReleasedOnce, Ctx!Released, Ctx!Own
<1> QED  BY <1>3, <1>4 DEF CtxInv

LEMMA CtxStep ==
    ASSUME CtxInv, [HostNext]_hostvars
    PROVE  CtxInv'
<1>1. CASE Render \/ Rendered \/ Setup \/ Serve \/ Close \/ UNCHANGED hostvars
  <2>1. UNCHANGED <<callvars, entering>>
    BY <1>1 DEF Render, Rendered, Setup, Serve, Close, hostvars
  <2>2. EntriesOK'
    BY <2>1 DEF CtxInv, GasInv, UseInv, EntriesOK
  <2> QED  BY <2>1, <2>2, OtherOK
<1>2. CASE ManageContexts
  BY <1>2, NewCtxOK, DisposeCtxOK DEF ManageContexts, CtxInv
<1>3. ASSUME NEW g \in Goroutines, CallEngine(g) \/ CallLookup(g) \/ CallStore(g)
      PROVE  CtxInv'
  BY <1>3, CallsOK
<1>4. ASSUME NEW g \in Goroutines, Execute(g) PROVE CtxInv'
  BY <1>4, OperateOK, CallbackOK, FunctionReturnsOK DEF Execute
<1>5. ASSUME NEW g \in Goroutines, NEW c \in 1 .. MaxContexts, NEW name \in Names,
             CallBegins(g, c, name)
      PROVE  CtxInv'
  BY <1>5, BeginsOK
<1> QED  BY <1>1, <1>2, <1>3, <1>4, <1>5 DEF HostNext

LEMMA CtxInitOK == HostInit => CtxInv
<1> SUFFICES ASSUME HostInit PROVE CtxInv
  OBVIOUS
<1>1. /\ ctxs = <<>> /\ held = {} /\ misused = FALSE
      /\ frames = [g \in Goroutines |-> <<>>]
      /\ entering = [g \in Goroutines |-> NotEntering]
  BY DEF HostInit, Ctx!CtxInit
<1>2. CtxTypes /\ DOMAIN ctxs = {} /\ \A g \in Goroutines : DOMAIN frames[g] = {}
  BY <1>1 DEF CtxTypes
<1>3. EntriesOK /\ \A g \in Goroutines : entering[g].in = "no"
  BY <1>1, NotEnteringOK DEF EntriesOK
<1>4. InUseLive /\ UsedByOne /\ FramesOK /\ GasSpentOnce
  BY <1>2, <1>3 DEF InUseLive, UsedByOne, FramesOK, GasSpentOnce, Ctx!GasSpentOnce
<1>5. HeldOK
  BY <1>1, <1>2 DEF HeldOK, ReleasedOnce, Ctx!ReleasedOnce
<1> QED  BY <1>2, <1>3, <1>4, <1>5 DEF CtxInv, GasInv, UseInv

LEMMA CtxAlways == HostSpec => []CtxInv
BY CtxInitOK, CtxStep, PTL DEF HostSpec

(* Between calls a context has the gas that its limit leaves after all     *)
(* that its calls used, whatever other goroutines do and however deep the  *)
(* calls made from callbacks are.                                          *)
THEOREM GasIsSpentOnce == HostSpec => []GasSpentOnce
<1>1. CtxInv => GasSpentOnce
  BY DEF CtxInv, GasInv
<1> QED  BY <1>1, CtxAlways, PTL

(* Memory and handles of a context are released once, and nothing is used  *)
(* after its release.                                                      *)
THEOREM ContextsReleasedOnce == HostSpec => []ReleasedOnce
<1>1. CtxInv => ReleasedOnce
  BY DEF CtxInv, HeldOK
<1> QED  BY <1>1, CtxAlways, PTL

(* A context with a debug callback calls it for exactly the debug          *)
(* operations, one without passes over exactly them: none is lost, serves  *)
(* a binding or fails the call, and no other operation is taken for one.   *)
(* Debug operations at a pc that is a multiple of 2^16 are not meant: see  *)
(* DebugSeparate.                                                          *)
THEOREM DebugIsSeparate == HostSpec => []DebugSeparate
<1>1. CtxInv => DebugSeparate
  BY DEF CtxInv, GasInv, FramesOK, Separate, DebugSeparate, Ctx!DebugSeparate
<1> QED  BY <1>1, CtxAlways, PTL
=============================================================================
