SPECIFICATION Spec
CONSTANTS
  Ips = {i1, i2, i3, i4, i5}
  MaxId = 4
  Given = {0, 2}
  KUBE_CONTROL_HOSTS = 1
  SCALE_THRESHOLD = 4
  MASSIVE_SCALE_THRESHOLD = 5
SYMMETRY Machines
INVARIANTS TypeOK RolesAreHosts OneHostPerMachine EveryRoleIsManned AddsWhatIsNew
