\* The platform whose health poller can see the helper's session.
CONSTANT Platform = "windows"
SPECIFICATION PolledSpec
PROPERTY DeadTunIsHandled
