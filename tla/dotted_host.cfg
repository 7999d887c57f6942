SPECIFICATION ConfigurationSpec
CONSTANTS
 Request <- MCRequest
 LocationName <- MCLocationName
 MaxMonitors = 1
PROPERTIES EveryMonitorScheduled
CHECK_DEADLOCK FALSE
