SPECIFICATION Spec
CONSTANT Components = {"tcp", "dhcp", "time", "services", "pages", "waits"}
PROPERTIES  LeasesSettle DirtyReachesDisk
CHECK_DEADLOCK FALSE
