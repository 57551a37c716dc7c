-------------------------- MODULE MCCaptureReplay ---------------------------
(* The capture of one synthetic pool, a pool whose status is 0, and a      *)
(* slot.  The mints are the keys of the pool's vaults, the only way a pool *)
(* is assembled by a cache that is written by mint and read by vault.      *)
EXTENDS CaptureReplay, TLC

MCSlot  == [type |-> "slot", slot |-> 1]
MCSpecs == <<[address |-> "p", fee_bps |-> 30, base_reserve |-> 5, quote_reserve |-> 7]>>
MCMints == << <<"p", 0>>, <<"p", 1>> >>
MCCapture == SynthesizeSmallCapture(MCSpecs, MCMints)
MCClosed == [MCCapture[1] EXCEPT !.data.status = 0]
MCEvent == ToSet(MCCapture) \cup {MCSlot, MCClosed}
MCGarbage == [type |-> "garbage"]
MCDecodeError == [type |-> "error"]
MCSize  == [e \in MCEvent |-> IF e = MCCapture[1] THEN 2 ELSE 1]
MCLayers == {NewBoundedDrop(1), NewCapped(2), NewBoundedCorrupt(0), NewBoundedCorrupt(165),
             NewJitteredSlot(1), NewReorder(2, "reverse"), NewReorder(3, "permute")}
=============================================================================
