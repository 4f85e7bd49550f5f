------------------------------ MODULE MCModem ------------------------------
EXTENDS Modem

Bound(tx, txUdp, rx, rxUdp, txrx) ==
  [s \in Setting |-> CASE s = <<"tx", FALSE>> -> tx [] s = <<"tx", TRUE>> -> txUdp
                       [] s = <<"rx", FALSE>> -> rx [] s = <<"rx", TRUE>> -> rxUdp
                       [] OTHER -> txrx]
MCMaxInputs == Bound(3, 3, 0, 0, 1)
MCMaxBatches == Bound(0, 0, 4, 7, 2)
MCMaxClients == Bound(0, 0, 2, 0, 1)
MCMaxUpsets == Bound(0, 0, 1, 1, 0)
=============================================================================
