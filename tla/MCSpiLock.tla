----------------------------- MODULE MCSpiLock -----------------------------
EXTENDS SpiLock, TLC

CONSTANTS t2, t3, spi2, spi3, p1, p2, p3, p4, p5, p6, p7, p8, p9

Bus(a, b, c) == [MISO |-> a, MOSI |-> b, CLK |-> c]

\* One task for each unit.
OneEach == (t2 :> {spi2}) @@ (t3 :> {spi3})

AlwaysFull == [u \in {spi2, spi3} |-> {{"READ", "WRITE"}}]

\* spi2 has two pin maps, and each shares a pin with the bus of spi3; or the
\* buses share nothing.
SharedMaps == (spi2 :> {Bus(p1, p2, p3), Bus(p4, p2, p3)})
                @@ (spi3 :> {Bus(p4, p5, p1), Bus(p4, p3, p5)})
PrivateMaps == (spi2 :> {Bus(p1, p2, p3)}) @@ (spi3 :> {Bus(p4, p8, p5)})

\* Three chip selects of its own for spi2, one more than it has devices; or
\* two, one of them that of spi3.
OwnCS == (spi2 :> {p6, p8, p9}) @@ (spi3 :> {p7})
SharedCS == (spi2 :> {p6, p7}) @@ (spi3 :> {p7})
=============================================================================
