--------------------------- MODULE MCNetServices ---------------------------
\* Instances of NetServices: the MQTT service and another that needs WiFi, whose ticks
\* may throw; the runs that look for one short trace add a service that needs none.
EXTENDS NetServices

\* bound: services
TestRegistered == <<"mqtt", "telnet">>
TestWithLocal == <<"mqtt", "telnet", "lcd">>
TestNetwork == {"mqtt", "telnet"}
=============================================================================
