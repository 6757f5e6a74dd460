---- MODULE MCEebusHelper ----
EXTENDS EebusHelper
MCConfigs == [enabled : BOOLEAN, port : {4712, 4713}]
====
