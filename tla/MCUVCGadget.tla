---------------------------- MODULE MCUVCGadget -----------------------------
(* A host that asks for formats below and above the range, of which the    *)
(* upper one needs large buffers.                                           *)
EXTENDS UVCGadget

HostAsked == {<<0, 0>>, <<9, 9>>}

LargeFormats == {<<2, 2>>}
=============================================================================
