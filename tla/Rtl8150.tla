------------------------------- MODULE Rtl8150 -------------------------------
(***************************************************************************)
(* The bulk endpoints of the RTL8150 USB Ethernet adapter: frames metered  *)
(* out to the guest a packet at a time, and put together again on the way  *)
(* out.                                                                    *)
(*                                                                         *)
(* Three parties act on the device.  The network hands it frames through   *)
(* QEMU's queue, which holds them back while can_receive says no or after  *)
(* receive has returned 0, until the device flushes it.  The host          *)
(* controller moves packets of whatever size it likes: one packet's worth  *)
(* or all that is left of the transfer.  The guest's driver keeps one      *)
(* receive URB of URB_LEN bytes posted, which ends at a short packet or    *)
(* when it is full; it kills its URBs when the interface goes down or a    *)
(* transmission times out, and the bus may be reset at any moment.         *)
(*                                                                         *)
(* A byte is <<frame, position>>, so a buffer shows whose bytes it holds.  *)
(***************************************************************************)
EXTENDS Integers, Sequences, FiniteSets

CONSTANTS MTU,          \* size of tx_buf, and the largest frame received
          MAX_PACKET,   \* wMaxPacketSize of the bulk endpoints
          STATUS_LEN,   \* the status word that ends a received transfer
          URB_LEN,      \* size of the driver's receive URB
          RxSizes,      \* sizes of the frames the network sends
          TxSizes,      \* sizes of the frames the driver sends
          MaxRx,        \* bound: frames the network sends
          MaxTx         \* bound: frames the driver sends

ASSUME SizeAssumption ==
    /\ {MTU, MAX_PACKET, STATUS_LEN, URB_LEN} \subseteq Nat \ {0}
    /\ RxSizes \subseteq Nat \ {0} /\ TxSizes \subseteq 1..MTU
    /\ MaxRx \in Nat /\ MaxTx \in Nat

\* Frames fit the driver's URB with their status word, or are refused: the code
\* would take 1537 to 1540 bytes, which no Ethernet carries.
ASSUME UrbAssumption == \A n \in RxSizes : n <= MTU => n + STATUS_LEN <= URB_LEN

\* rtl8150_start_xmit appends a byte rather than send whole packets only.
ASSUME PaddingAssumption == \A n \in TxSizes : n % MAX_PACKET # 0

VARIABLES
    config,             \* the guest has configured the device
    rx_frame,           \* the frame in rx_buf
    rx_total, rx_ptr,   \* length of its transfer, and how much was handed over
    rx_zlp,             \* an empty packet is owed
    tx_buf,             \* bytes gathered so far (tx_ptr is its length)
    \* QEMU's queue for the device
    queue, receive_disabled,
    \* the guest
    urb,                \* bytes in the receive URB
    out,                \* what is left of the transmission under way
    \* history
    arrived, got,       \* frames the network sent; URBs completed, not empty
    submitted, wire,    \* frames the driver sent; frames put on the network
    spoiled,            \* received frames that a killed URB cut
    excused,            \* received frames that were too long, that came before
                        \* the configuration, or that a reset found waiting or
                        \* in the device
    txSpoiled           \* sent frames that a killed URB cut or was joined to

device == <<rx_frame, rx_total, rx_ptr, rx_zlp>>
net == <<queue, receive_disabled, arrived>>
rx == <<device, net, urb, got, spoiled, excused>>
tx == <<tx_buf, out, submitted, wire, txSpoiled>>
vars == <<config, rx, tx>>

Frame == [id : 1..MaxRx, size : RxSizes]
NoFrame == [id |-> 0, size |-> 0]
Ids == 1..MaxRx
AllBytes == (0..MaxRx + MaxTx) \X Nat

TypeOK ==
    /\ config \in BOOLEAN
    /\ rx_frame \in Frame \cup {NoFrame}
    /\ rx_total \in 0..(MTU + STATUS_LEN)
    /\ rx_ptr \in 0..rx_total
    /\ rx_zlp \in BOOLEAN
    /\ tx_buf \in Seq(AllBytes) /\ Len(tx_buf) <= MTU
    /\ queue \in Seq(Frame) /\ receive_disabled \in BOOLEAN
    /\ urb \in Seq(AllBytes) /\ Len(urb) < URB_LEN
    /\ out \in Seq(AllBytes)
    /\ arrived \in 0..MaxRx /\ submitted \in 0..MaxTx
    /\ got \in Seq(Seq(AllBytes)) /\ wire \in Seq(Seq(AllBytes))
    /\ spoiled \subseteq Ids /\ excused \subseteq Ids
    /\ txSpoiled \subseteq 1..MaxTx

Bytes(id, n) == [i \in 1..n |-> <<id, i>>]
Senders(s) == {s[i][1] : i \in DOMAIN s}
Least(m, n) == IF m < n THEN m ELSE n

\* A received transfer: the frame and its status word.
Transfer(f) == Bytes(f.id, f.size + STATUS_LEN)

Busy == rx_total # 0 \/ rx_zlp

Init ==
    /\ config = FALSE
    /\ rx_frame = NoFrame /\ rx_total = 0 /\ rx_ptr = 0 /\ rx_zlp = FALSE
    /\ tx_buf = <<>> /\ out = <<>> /\ urb = <<>>
    /\ queue = <<>> /\ receive_disabled = FALSE
    /\ arrived = 0 /\ submitted = 0 /\ got = <<>> /\ wire = <<>>
    /\ spoiled = {} /\ excused = {} /\ txSpoiled = {}
------------------------------------------------------------------------------
(* From the network.                                                       *)

CanReceive == ~Busy /\ config

Fits(f) == f.size <= MTU

\* QEMU offers the frames of q in turn to an idle device.  rtl8150_receive
\* refuses the ones that do not fit (they are gone), keeps the first that does
\* and returns 0 for the one after it, which stops the queue.
Offer(q) ==
    LET fit == {i \in DOMAIN q : Fits(q[i])}
        k == IF fit = {} THEN Len(q) ELSE CHOOSE i \in fit : \A j \in fit : i <= j
        rest == SubSeq(q, k + 1, Len(q))
    IN  /\ queue' = rest
        /\ receive_disabled' = (rest # <<>>)
        /\ excused' = excused \cup {q[i].id : i \in {j \in 1..k : ~Fits(q[j])}}
        /\ IF fit = {}
             THEN rx_frame' = NoFrame /\ rx_total' = 0 /\ rx_ptr' = 0
             ELSE /\ rx_frame' = q[k]
                  /\ rx_total' = q[k].size + STATUS_LEN
                  /\ rx_ptr' = 0

\* A frame arrives: QEMU queues it, or delivers it and then what is queued.
Arrive(n) ==
    LET f == [id |-> arrived + 1, size |-> n] IN
    /\ arrived < MaxRx
    /\ arrived' = f.id
    /\ IF receive_disabled \/ ~CanReceive
         THEN /\ queue' = Append(queue, f)
              /\ excused' = IF config THEN excused ELSE excused \cup {f.id}
              /\ UNCHANGED <<device, receive_disabled>>
         ELSE Offer(<<f>> \o queue) /\ UNCHANGED rx_zlp
    /\ UNCHANGED <<config, urb, got, spoiled, tx>>
------------------------------------------------------------------------------
(* To the guest: rtl8150_handle_data, bulk IN.                             *)

Room == URB_LEN - Len(urb)

\* The sizes a host controller may ask for.
Asked(room) == {Least(MAX_PACKET, room), room}

\* Mutation: no empty packet ends a whole number of packets.
NeverOwed(total) == FALSE

\* Mutation: the empty packet itself is taken for a whole number of packets.
OwesForever(total) == total % MAX_PACKET = 0

OwesEmptyPacket(total) == total # 0 /\ total % MAX_PACKET = 0

\* Mutation: the network is only told after an empty packet.
FlushesAfterEmpty(zlp) == rx_total = 0

Flushes(zlp) == ~zlp

\* The URB takes the packet: it ends short, or full, or waits for more.
TakePacket(data, size) ==
    LET all == urb \o data
        ends == Len(data) < size \/ Len(all) = URB_LEN
    IN  /\ urb' = IF ends THEN <<>> ELSE all
        /\ got' = IF ends /\ all # <<>> THEN Append(got, all) ELSE got

InPacket(size) ==
    LET n == Least(rx_total - rx_ptr, size)
        done == rx_ptr + n >= rx_total
        zlp == OwesEmptyPacket(rx_total)
    IN  /\ config /\ Busy
        /\ TakePacket(SubSeq(Transfer(rx_frame), rx_ptr + 1, rx_ptr + n), size)
        /\ IF ~done
             THEN /\ rx_ptr' = rx_ptr + n
                  /\ UNCHANGED <<rx_frame, rx_total, rx_zlp, queue,
                                 receive_disabled, excused>>
             ELSE /\ rx_zlp' = zlp
                  /\ IF Flushes(zlp)
                       THEN Offer(queue)
                       ELSE /\ rx_total' = 0 /\ rx_ptr' = 0
                            /\ UNCHANGED <<rx_frame, queue, receive_disabled,
                                           excused>>
        /\ UNCHANGED <<config, arrived, spoiled, tx>>
------------------------------------------------------------------------------
(* From the guest: rtl8150_handle_data, bulk OUT.                          *)

\* Mutation: what does not fit in tx_buf is written past its end.
Unclipped(size) == size

\* How much of a packet is copied.
Copied(size) == Least(MTU - Len(tx_buf), size)

\* Mutation: every packet is sent as a frame.
EveryPacketEnds(size) == TRUE

\* A short packet makes the frame whole.
EndsFrame(size) == size % MAX_PACKET # 0 \/ size = 0

Submit(n) ==
    /\ config /\ out = <<>> /\ submitted < MaxTx
    /\ submitted' = submitted + 1
    /\ out' = Bytes(submitted', n)
    /\ txSpoiled' = IF tx_buf = <<>> THEN txSpoiled
                                     ELSE txSpoiled \cup {submitted'}
    /\ UNCHANGED <<config, rx, tx_buf, wire>>

OutPacket(size) ==
    LET held == tx_buf \o SubSeq(out, 1, Copied(size)) IN
    /\ out # <<>>
    /\ out' = SubSeq(out, size + 1, Len(out))
    /\ tx_buf' = IF EndsFrame(size) THEN <<>> ELSE held
    /\ wire' = IF EndsFrame(size) THEN Append(wire, held) ELSE wire
    /\ UNCHANGED <<config, rx, submitted, txSpoiled>>
------------------------------------------------------------------------------
(* Disturbances.                                                           *)

\* The driver takes the interface down: the URB and what it holds are gone, the
\* device is not told.
KillRx ==
    /\ urb # <<>>
    /\ urb' = <<>>
    /\ spoiled' = spoiled \cup Senders(urb)
    /\ UNCHANGED <<config, device, net, got, excused, tx>>

\* A transmission times out half way.
KillTx ==
    /\ out # <<>>
    /\ out' = <<>>
    /\ txSpoiled' = txSpoiled \cup Senders(out)
    /\ UNCHANGED <<config, rx, tx_buf, submitted, wire>>

Waiting == {queue[i].id : i \in DOMAIN queue}
InDevice == IF Busy THEN {rx_frame.id} ELSE {}

\* The guest selects the configuration.  Nothing flushes the queue.
Configure ==
    /\ ~config
    /\ config' = TRUE
    /\ UNCHANGED <<rx, tx>>

\* Mutation: the reset leaves the transfer half handed over.
ResetKeepsPosition ==
    /\ config
    /\ rx_zlp' = FALSE /\ tx_buf' = <<>>
    /\ urb' = <<>> /\ out' = <<>>
    /\ excused' = excused \cup Waiting \cup InDevice
    /\ txSpoiled' = txSpoiled \cup Senders(out)
    /\ UNCHANGED <<rx_frame, rx_total, rx_ptr, config, net, got, spoiled,
                   submitted, wire>>

\* rtl8150_handle_reset, and the guest's URBs with it (before the configuration
\* it finds nothing to clear).  Nothing flushes the queue, and a queue that
\* receive stopped stays stopped.
HandleReset ==
    /\ config
    /\ rx_total' = 0 /\ rx_ptr' = 0 /\ rx_zlp' = FALSE /\ tx_buf' = <<>>
    /\ urb' = <<>> /\ out' = <<>>
    /\ excused' = excused \cup Waiting \cup InDevice
    /\ txSpoiled' = txSpoiled \cup Senders(out)
    /\ UNCHANGED <<rx_frame, config, net, got, spoiled, submitted, wire>>

In == \E size \in Asked(Room) : InPacket(size)
Out == \E size \in Asked(Len(out)) : OutPacket(size)

Next == \/ \E n \in RxSizes : Arrive(n)
        \/ In
        \/ \E n \in TxSizes : Submit(n)
        \/ Out
        \/ KillRx
        \/ KillTx
        \/ Configure
        \/ HandleReset

Spec == Init /\ [][Next]_vars

\* The host controller polls the bulk endpoints of a configured device, and the
\* driver keeps its receive URB posted.
FairSpec == Spec /\ WF_vars(In) /\ WF_vars(Out)
------------------------------------------------------------------------------
(* Properties.                                                             *)

\* A completed URB that holds bytes of an uncut frame is that frame with its
\* status word and nothing else, whatever sizes the host asked for: the empty
\* packet keeps two transfers apart, and after a killed URB the next frame is
\* in step again.
OneFramePerUrb ==
    \A i \in DOMAIN got :
        ~(Senders(got[i]) \subseteq spoiled) =>
            \E id \in Ids, n \in RxSizes :
                got[i] = Transfer([id |-> id, size |-> n])

\* What reached the driver: frames that are whole, by their numbers, and scraps.
IsWhole(u) == \E n \in RxSizes : u = Transfer([id |-> u[1][1], size |-> n])
Collected == [i \in DOMAIN got |-> IF IsWhole(got[i]) THEN got[i][1][1] ELSE 0]

Link == INSTANCE FrameLink WITH MaxFrames <- MaxRx, sent <- arrived,
                                delivered <- Collected, loose <- spoiled \cup excused

\* The device and QEMU's queue are such a link: nothing is delivered twice or
\* skipped, scraps come only of a frame that was cut, and only the frames that a
\* reset, a kill or the configuration touched are overtaken, by whatever packets
\* the host moves the bytes.
ImplementsLink == Link!Spec

\* No frame goes to the network cut, joined to another or twice, and they go in
\* order; only frames that a killed transmission touched are spoiled.
SentWhole ==
    /\ \A i \in DOMAIN wire :
           ~(Senders(wire[i]) \subseteq txSpoiled) =>
               \E id \in 1..MaxTx, n \in TxSizes : wire[i] = Bytes(id, n)
    /\ \A i, j \in DOMAIN wire :
           i < j => \A a \in Senders(wire[i]) \ txSpoiled,
                       b \in Senders(wire[j]) \ txSpoiled : a < b

\* What the comment on rx_buf promises of its single buffer: a frame is held back
\* only while another is in flight.
StoppedOnlyWhileBusy == receive_disabled => Busy

Stalled == receive_disabled /\ ~Busy

\* A frame that reaches a configured device and fits is collected in the end:
\* a free device with frames waiting has always been flushed, unless a reset
\* took the frame that the stopped queue was waiting for (then the queue stays
\* stopped for good, see StoppedOnlyWhileBusy).
EveryFrameArrives ==
    \A k \in Ids :
        (arrived >= k) ~> \/ k \in excused \cup spoiled
                          \/ \E i \in DOMAIN got : k \in Senders(got[i])
                          \/ Stalled
==============================================================================
