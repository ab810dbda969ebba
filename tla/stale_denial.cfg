SPECIFICATION Spec
CONSTANT Refreshes = 2
PROPERTIES
  StaleNeverDenies
