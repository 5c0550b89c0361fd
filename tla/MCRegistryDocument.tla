------------------------- MODULE MCRegistryDocument -------------------------
EXTENDS RegistryDocument

\* The ends of February and of December around 1900 and 2000, and the epoch.
MCDeliveryDays == {-25509, -25508, -1, 0, 58, 10956, 11015, 11016}
\* One second on each side of the edges of the window of six hours.
MCOffsets == {-61, -60, 0, 21599, 21600}
MCFirstDay == -25600
=============================================================================
