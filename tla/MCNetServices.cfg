SPECIFICATION FairSpec
CONSTANTS
 Registered <- TestRegistered
 Network <- TestNetwork
 Mqtt = "mqtt"
 Subscriptions = TRUE
 Faulty = {"mqtt", "telnet"}
INVARIANTS StoppedIsReleased
PROPERTIES SelfHeals
