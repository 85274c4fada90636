SPECIFICATION Spec
CONSTANTS
 Registered <- TestWithLocal
 Network <- TestNetwork
 Mqtt = "mqtt"
 Subscriptions = TRUE
 Faulty = {"telnet"}
INVARIANT SubscribesUnconnected
